---- MODULE Spec2Model ----
(***************************************************************************)
(* LimeTrace backend: the segment consolidation engine.                    *)
(*                                                                         *)
(*   crates/limetrace-backend/src/recorder.rs   Recorder (ingest,          *)
(*                                              flush_and_close)           *)
(*   crates/limetrace-backend/src/db.rs         Database (upsert_app,      *)
(*                                              upsert_title,              *)
(*                                              insert_segment,            *)
(*                                              truncate_active_...)       *)
(*   crates/limetrace-backend/src/main.rs       the sampling loop          *)
(*                                                                         *)
(* Option<T> is modelled as a set with at most one element: None is {},    *)
(* Some(v) is {v}.  A storage call that returns Err is a nondeterministic  *)
(* input of the operation (the parameter `fault`).                         *)
(***************************************************************************)
EXTENDS Integers, Sequences, FiniteSets, TLC

\* ------------------------------------------------------------------ bounds
\* Largest timestamp (seconds) a sample may carry; the clock starts at 2.
MaxTs == 5
\* Largest number of ingest calls of one run.
MaxSamples == 3
\* Largest rotate_every_secs of a steady run.
MaxRotate == 3
\* Largest timestamp of a steady run (one window, one sample per second).
MaxSteadyTs == 9
\* Largest number of ingest calls before flush_and_close is called twice.
MaxBriefSamples == 2
\* Largest number of iterations of the sampling loop of main.
MaxLoopSamples == 2
\* Largest number of rows the segments table holds in those runs.
MaxDbRows == 2

\* samples ingested by the backends followed from process start
MaxStartSamples == 2

\* Width of a timestamp where the end of its range is looked at: i64 scaled
\* down, idle_secs staying far smaller than the range as u32 / 1000 does.
TsBits == 6
\* Largest number of ingest calls with timestamps over that whole range.
MaxIdleSamples == 2
\* Largest number of ingest calls of a run of one process changing titles.
MaxTitleSamples == 3
\* Width of the tick counter and of idle_ms: u32 scaled down.
TickBits == 3
\* Largest number of capture calls of one monitor.
MaxCaptures == 2
\* Largest number of ingest calls of a run whose key changes every time.
MaxChangingSamples == 3
\* Largest timestamp of the rows truncation is applied to repeatedly.
MaxTruncTs == 3
\* Largest number of truncation calls in a row.
MaxTruncations == 2

\* ------------------------------------------------------------ Option<T>
None == {}

Some(v) == {v}

IsSome(o) == o # {}

Unwrap(o) == CHOOSE v \in o : TRUE

Min(a, b) == IF a <= b THEN a ELSE b

Max(a, b) == IF a >= b THEN a ELSE b

\* ------------------------------------------------------- sample domains
\* The foreground windows the monitor reports (monitor.rs ActiveWindow):
\* a window, the same pid in a later process lifetime, and a window without
\* title of another process whose creation time is unknown.
Window(pid, create_time, exe_name, process_path, window_title) ==
    [pid |-> pid, pid_create_time |-> create_time, exe_name |-> exe_name,
     process_path |-> process_path, window_title |-> window_title]

\* idle_ms: u32 milliseconds since the last input (0, 1 and 2 whole seconds).
IdleMsValues == {0, 1999, 2000}

\* --rotate-secs when the option is not given.
DefaultRotateSecs == 10

\* rotate_every_secs, as Config::from_args hands it over: whole seconds,
\* never 0; the default is longer than any run followed here.
RotateChoices == {1, 2, DefaultRotateSecs}

ActiveWindow ==
    {Window(7, Some(1), "a.exe", "C:/a.exe", "t"),
     Window(7, Some(2), "a.exe", "C:/a.exe", "t"),
     Window(9, None, "b.exe", "C:/b.exe", "")}

\* Seconds the clock advances between two consecutive samples.
ClockSteps == {0, 1, 2}


IdleSample(ts, idle_ms) == [ts |-> ts, kind |-> "Idle", idle_ms |-> idle_ms]

ActiveSample(ts, w) == [ts |-> ts, kind |-> "Active", window |-> w]

\* Storage calls that may return Err inside one operation.
Faults == {"none", "app_insert", "app_readback", "title_insert",
           "title_readback", "truncate", "insert_segment"}

\* ---------------------------------------------------------------- state
VARIABLES
    current,            \* Recorder.current : Option<OpenSegment>
    rotate_every_secs,  \* Recorder.rotate_every_secs
    segments,           \* table segments : set of rows, each with its rowid
    apps,               \* table apps
    titles,             \* table titles
    app_cache,          \* Database.app_cache : (exe_name, process_path) -> id
    title_cache,        \* Database.title_cache : title -> id
    now,                \* the clock: the timestamp of the latest sample
    samples,            \* number of ingest calls so far
    flush_calls,        \* number of flush_and_close calls so far
    faults,             \* number of storage calls that returned Err so far
    last,               \* the latest operation: its input, result and effects
    run,                \* history of the sample stream (steady one-key runs)
    pc,                 \* main: the position of the main thread
    shutdown,           \* main: the AtomicBool set by the ctrl-c handler
    tx,                 \* the open transaction of the connection, if any
    seen,               \* what a reader in another process read last
    procs               \* two processes inside upsert_app, one store

vars == <<current, rotate_every_secs, segments, apps, titles, app_cache,
          title_cache, now, samples, flush_calls, faults, last, run,
          pc, shutdown, tx, seen, procs>>

\* What the recorder's two operations never touch.
outside == <<pc, shutdown, tx, seen, procs>>

\* ------------------------------------------------------------- Database
\* rowid of an INTEGER PRIMARY KEY row inserted without an explicit id.
NextRowId(table) ==
    IF table = {} THEN 1
    ELSE (CHOOSE m \in {r.id : r \in table} :
              \A r \in table : r.id <= m) + 1

\* The apps rows of (exe_name, process_path); UNIQUE allows at most one.
AppRows(tbl, exe_name, process_path) ==
    {r \in tbl : r.exe_name = exe_name /\ r.process_path = process_path}

\* Mutant: a plain INSERT into a table without the UNIQUE constraint.
AppInsert_Blind(tbl, exe_name, process_path) ==
    tbl \cup {[id |-> NextRowId(tbl), exe_name |-> exe_name,
               process_path |-> process_path]}

\* Mutant: INSERT OR REPLACE, the row of the pair is replaced by a new one.
AppInsert_Replace(tbl, exe_name, process_path) ==
    (tbl \ AppRows(tbl, exe_name, process_path))
        \cup {[id |-> NextRowId(tbl), exe_name |-> exe_name,
                process_path |-> process_path]}

\* INSERT INTO apps .. ON CONFLICT(exe_name, process_path) DO NOTHING, when
\* the statement is executed: the table after it.
AppInsert(tbl, exe_name, process_path) ==
    IF \E r \in tbl : r.exe_name = exe_name /\ r.process_path = process_path
    THEN tbl
    ELSE tbl \cup {[id |-> NextRowId(tbl), exe_name |-> exe_name,
                    process_path |-> process_path]}

\* Mutant: the id is read as the largest rowid of the table.
AppSelectId_LastRow(tbl, exe_name, process_path) ==
    IF tbl = {} THEN None ELSE Some(NextRowId(tbl) - 1)

\* SELECT id FROM apps WHERE exe_name = ?1 AND process_path = ?2, as
\* query_row reads it: the id of the row, or no row (an Err).
AppSelectId(tbl, exe_name, process_path) ==
    {r.id : r \in AppRows(tbl, exe_name, process_path)}

\* Mutant: the cache entry is written before the INSERT, with the rowid the
\* row is expected to get.
UpsertApp_CacheFirst(tbl, cache, exe_name, process_path, fault) ==
    LET key == <<exe_name, process_path>>
        inserted == AppInsert(tbl, exe_name, process_path)
        guess == NextRowId(tbl)
    IN  IF key \in DOMAIN cache
        THEN [ok |-> TRUE, id |-> cache[key], apps |-> tbl, cache |-> cache]
        ELSE IF fault = "app_insert"
        THEN [ok |-> FALSE, id |-> 0, apps |-> tbl,
              cache |-> cache @@ (key :> guess)]
        ELSE IF fault = "app_readback"
        THEN [ok |-> FALSE, id |-> 0, apps |-> inserted,
              cache |-> cache @@ (key :> guess)]
        ELSE [ok |-> TRUE, id |-> guess, apps |-> inserted,
              cache |-> cache @@ (key :> guess)]

\* Database::upsert_app: [ok, id, apps, cache].
UpsertApp(tbl, cache, exe_name, process_path, fault) ==
    LET key == <<exe_name, process_path>>
        inserted == AppInsert(tbl, exe_name, process_path)
        id == Unwrap(AppSelectId(inserted, exe_name, process_path))
    IN  IF key \in DOMAIN cache
        THEN [ok |-> TRUE, id |-> cache[key], apps |-> tbl, cache |-> cache]
        ELSE IF fault = "app_insert"
        THEN [ok |-> FALSE, id |-> 0, apps |-> tbl, cache |-> cache]
        ELSE IF fault = "app_readback"
        THEN [ok |-> FALSE, id |-> 0, apps |-> inserted, cache |-> cache]
        ELSE [ok |-> TRUE, id |-> id, apps |-> inserted,
              cache |-> cache @@ (key :> id)]

\* Database::upsert_title: [ok, id, titles, cache].
UpsertTitle(tbl, cache, title, fault) ==
    LET present == \E r \in tbl : r.title = title
        inserted == IF present THEN tbl
                    ELSE tbl \cup {[id |-> NextRowId(tbl), title |-> title]}
        row == CHOOSE r \in inserted : r.title = title
    IN  IF title \in DOMAIN cache
        THEN [ok |-> TRUE, id |-> cache[title], titles |-> tbl, cache |-> cache]
        ELSE IF fault = "title_insert"
        THEN [ok |-> FALSE, id |-> 0, titles |-> tbl, cache |-> cache]
        ELSE IF fault = "title_readback"
        THEN [ok |-> FALSE, id |-> 0, titles |-> inserted, cache |-> cache]
        ELSE [ok |-> TRUE, id |-> row.id, titles |-> inserted,
              cache |-> cache @@ (title :> row.id)]

\* SegmentInsert -> the row stored for it.
RowOf(id, seg) ==
    [id |-> id, start_ts |-> seg.start_ts, end_ts |-> seg.end_ts,
     app_id |-> seg.app_id, title_id |-> seg.title_id,
     is_idle |-> seg.is_idle, pid |-> seg.pid,
     pid_create_time |-> seg.pid_create_time]

\* Mutant: insert_segment has no early return.
InsertDropsRow_Never(seg) == FALSE

\* Mutant: the early return lets a row with end_ts = start_ts through.
InsertDropsRow_Strict(seg) == seg.end_ts < seg.start_ts

\* The early return of insert_segment: a row of no duration is not stored.
InsertDropsRow(seg) == seg.end_ts <= seg.start_ts

\* Mutant: the INSERT replaces the rows of the table.
InsertSegment_Replace(tbl, seg) ==
    IF InsertDropsRow(seg) THEN tbl ELSE {RowOf(NextRowId(tbl), seg)}

\* Mutant: the INSERT is executed twice.
InsertSegment_Twice(tbl, seg) ==
    IF InsertDropsRow(seg) THEN tbl
    ELSE tbl \cup {RowOf(NextRowId(tbl), seg),
                   RowOf(NextRowId(tbl) + 1, seg)}

\* Database::insert_segment, when the INSERT succeeds.
InsertSegment(tbl, seg) ==
    IF InsertDropsRow(seg) THEN tbl
    ELSE tbl \cup {RowOf(NextRowId(tbl), seg)}

\* Database::insert_segment, the whole call: [ok, segments]; the INSERT is
\* reached, and can fail, only for a row that is not dropped.
InsertSegmentCall(tbl, seg, fault) ==
    IF fault = "insert_segment" /\ ~InsertDropsRow(seg)
    THEN [ok |-> FALSE, segments |-> tbl]
    ELSE [ok |-> TRUE, segments |-> InsertSegment(tbl, seg)]

\* Mutant: the DELETE also removes the rows that straddle the cutoff.
TruncateDeletes_Straddlers(r, cutoff_ts) == ~r.is_idle /\ r.end_ts > cutoff_ts

\* Mutant: the DELETE keeps a row that starts exactly at the cutoff.
TruncateDeletes_Strict(r, cutoff_ts) == ~r.is_idle /\ r.start_ts > cutoff_ts

\* Mutant: the DELETE leaves out is_idle = 0.
TruncateDeletes_AnyRow(r, cutoff_ts) == r.start_ts >= cutoff_ts

\* Mutant: the DELETE has = in place of >=.
TruncateDeletes_OnlyAtCutoff(r, cutoff_ts) ==
    ~r.is_idle /\ r.start_ts = cutoff_ts

\* The DELETE of truncate_active_segments_from.
TruncateDeletes(r, cutoff_ts) == ~r.is_idle /\ r.start_ts >= cutoff_ts

\* Mutant: the UPDATE also trims idle rows.
TruncateTrims_AnyRow(r, cutoff_ts) ==
    r.start_ts < cutoff_ts /\ r.end_ts > cutoff_ts

\* The UPDATE of truncate_active_segments_from.
TruncateTrims(r, cutoff_ts) ==
    ~r.is_idle /\ r.start_ts < cutoff_ts /\ r.end_ts > cutoff_ts

\* DELETE FROM segments WHERE is_idle = 0 AND start_ts >= ?1.
DeleteStatement(tbl, cutoff_ts) ==
    {r \in tbl : ~TruncateDeletes(r, cutoff_ts)}

\* UPDATE segments SET end_ts = ?1 WHERE is_idle = 0 AND start_ts < ?1 AND
\* end_ts > ?1.
UpdateStatement(tbl, cutoff_ts) ==
    {IF TruncateTrims(r, cutoff_ts)
     THEN [r EXCEPT !.end_ts = cutoff_ts] ELSE r : r \in tbl}

\* Database::truncate_active_segments_from, when the transaction commits.
TruncateActiveSegmentsFrom(tbl, cutoff_ts) ==
    UpdateStatement(DeleteStatement(tbl, cutoff_ts), cutoff_ts)

\* ------------------------------------------------------------- Recorder
\* Mutant: the idle key carries a pid.
IdleKey_WithPid == [app_id |-> None, title_id |-> None, is_idle |-> TRUE,
                    pid |-> Some(0), pid_create_time |-> None]

\* Recorder::idle_key.
IdleKey == [app_id |-> None, title_id |-> None, is_idle |-> TRUE,
            pid |-> None, pid_create_time |-> None]

\* Mutant: the key leaves out pid_create_time.
ActiveKey_NoCreateTime(app_id, title_id, w) ==
    [app_id |-> Some(app_id), title_id |-> title_id, is_idle |-> FALSE,
     pid |-> Some(w.pid), pid_create_time |-> None]

\* Mutant: the key leaves out the title.
ActiveKey_NoTitle(app_id, title_id, w) ==
    [app_id |-> Some(app_id), title_id |-> None, is_idle |-> FALSE,
     pid |-> Some(w.pid), pid_create_time |-> w.pid_create_time]

\* The SegmentKey build_key returns for an Active sample.
ActiveKey(app_id, title_id, w) ==
    [app_id |-> Some(app_id), title_id |-> title_id, is_idle |-> FALSE,
     pid |-> Some(w.pid), pid_create_time |-> w.pid_create_time]

\* i64 scaled to TsBits bits, two's complement.
I64Min == -(2 ^ (TsBits - 1))

I64Max == (2 ^ (TsBits - 1)) - 1

\* i64::saturating_sub.
SaturatingSub(a, b) == Max(I64Min, Min(I64Max, a - b))

\* Mutant: wrapping_sub in place of saturating_sub.
IdleStartTs_Wrapping(sample_ts, idle_ms) ==
    ((sample_ts - (idle_ms \div 1000) - I64Min) % (2 ^ TsBits)) + I64Min

\* idle_ms / 1000 on u32, then sample_ts.saturating_sub(idle_secs).
IdleStartTs(sample_ts, idle_ms) ==
    SaturatingSub(sample_ts, idle_ms \div 1000)

\* Mutant: rotation one sample late (> instead of >=).
ShouldRotate_Late(start_ts, end_ts, every) ==
    every > 0 /\ end_ts - start_ts > every

\* should_rotate, evaluated after end_ts has been set to sample_ts.
ShouldRotate(start_ts, end_ts, every) ==
    every > 0 /\ end_ts - start_ts >= every

\* Mutant: the tail of the active segment is not trimmed on active -> idle.
ClampedEnd_NoClamp(previous, key, segment_start_ts) == previous.end_ts

\* Mutant: every key change moves the previous end_ts to the boundary.
ClampedEnd_Boundary(previous, key, segment_start_ts) == segment_start_ts

\* Mutant: an active segment is closed a second before the idle one starts.
ClampedEnd_GapBefore(previous, key, segment_start_ts) ==
    IF key.is_idle /\ ~previous.key.is_idle
    THEN Min(previous.end_ts, segment_start_ts - 1)
    ELSE previous.end_ts

\* The end_ts of the previous segment when the key changes.
ClampedEnd(previous, key, segment_start_ts) ==
    IF key.is_idle /\ ~previous.key.is_idle
    THEN Min(previous.end_ts, segment_start_ts)
    ELSE previous.end_ts

\* Mutant: flush_and_close does not extend the open segment to now_ts.
CloseEnd_NoExtend(end_ts, now_ts) == end_ts

\* The end_ts flush_and_close writes.
CloseEnd(end_ts, now_ts) == IF now_ts > end_ts THEN now_ts ELSE end_ts

\* Mutant: the same-key step restarts the open segment at the sample.
Extended_Restart(seg, sample_ts) ==
    [seg EXCEPT !.start_ts = sample_ts, !.end_ts = sample_ts]

\* The same-key branch: current.end_ts = sample_ts.
Extended(seg, sample_ts) == [seg EXCEPT !.end_ts = sample_ts]

\* Mutant: the open segment is taken before the upserts and the truncation.
EarlyReturn_Taken(opt) == None

\* self.current when a `?` of the upserts or of the truncation returns: the
\* open segment has not been read yet.
EarlyReturn(opt) == opt

\* Mutant: the open segment is read without being taken.
Take_Keeps(opt) == opt

\* Option::take leaves None behind.
Take(opt) == None

\* Mutant: a new open segment ends where it starts.
OpenSegment_EndAtStart(start_ts, end_ts, key) ==
    [start_ts |-> start_ts, end_ts |-> start_ts, key |-> key]

\* Mutant: a new open segment is dated one second back.
OpenSegment_StartsEarlier(start_ts, end_ts, key) ==
    [start_ts |-> start_ts - 1, end_ts |-> end_ts, key |-> key]

\* An OpenSegment value.
OpenSegment(start_ts, end_ts, key) ==
    [start_ts |-> start_ts, end_ts |-> end_ts, key |-> key]

\* Recorder::flush_segment builds this SegmentInsert.
SegmentInsertOf(seg) ==
    [start_ts |-> seg.start_ts, end_ts |-> seg.end_ts,
     app_id |-> seg.key.app_id, title_id |-> seg.key.title_id,
     is_idle |-> seg.key.is_idle, pid |-> seg.key.pid,
     pid_create_time |-> seg.key.pid_create_time]

\* Recorder::build_key for an Active sample: the two dimension upserts, in
\* order; the title is looked up only when window_title is not empty.
BuildKey(w, fault) ==
    LET a == UpsertApp(apps, app_cache, w.exe_name, w.process_path, fault)
        skip == [ok |-> TRUE, id |-> 0, titles |-> titles,
                 cache |-> title_cache]
        t == IF ~a.ok \/ w.window_title = "" THEN skip
             ELSE UpsertTitle(titles, title_cache, w.window_title, fault)
        title_id == IF w.window_title = "" THEN None ELSE Some(t.id)
    IN  [ok |-> a.ok /\ t.ok,
         key |-> ActiveKey(a.id, title_id, w),
         apps |-> a.apps, app_cache |-> a.cache,
         titles |-> t.titles, title_cache |-> t.cache]

\* The first match of ingest: (key, segment_start_ts, trim_active_after_ts).
Classify(sample, fault) ==
    IF sample.kind = "Idle"
    THEN LET idle_start_ts == IdleStartTs(sample.ts, sample.idle_ms)
         IN  [ok |-> TRUE, key |-> IdleKey,
              segment_start_ts |-> idle_start_ts,
              trim_active_after_ts |-> Some(idle_start_ts),
              apps |-> apps, app_cache |-> app_cache,
              titles |-> titles, title_cache |-> title_cache]
    ELSE LET b == BuildKey(sample.window, fault)
         IN  [ok |-> b.ok, key |-> b.key,
              segment_start_ts |-> sample.ts,
              trim_active_after_ts |-> None,
              apps |-> b.apps, app_cache |-> b.app_cache,
              titles |-> b.titles, title_cache |-> b.title_cache]

\* Recorder::flush_segment: [ok, segments].
FlushSegment(tbl, seg, fault) ==
    InsertSegmentCall(tbl, SegmentInsertOf(seg), fault)

Record(op, sample, now_ts, ok, handed, cutoff) ==
    [op |-> op, sample |-> sample, now_ts |-> now_ts,
     result |-> IF ok THEN "Ok" ELSE "Err",
     before |-> current, handed |-> handed, cutoff |-> cutoff]

\* Recorder::ingest(sample), the whole call.
IngestStep(sample, fault) ==
    LET c == Classify(sample, fault)
        key == c.key
        cutoff == c.trim_active_after_ts
        truncFails == IsSome(cutoff) /\ fault = "truncate"
        truncated == IF IsSome(cutoff)
                     THEN TruncateActiveSegmentsFrom(segments, Unwrap(cutoff))
                     ELSE segments
        sameKey == IsSome(current) /\ Unwrap(current).key = key
        extended == Extended(Unwrap(current), sample.ts)
        rotate == ShouldRotate(extended.start_ts, extended.end_ts,
                               rotate_every_secs)
        previous == [Unwrap(current) EXCEPT
                        !.end_ts = ClampedEnd(Unwrap(current), key,
                                              c.segment_start_ts)]
        flushed == IF sameKey THEN extended ELSE previous
        f == FlushSegment(truncated, flushed, fault)
        fresh == IF sameKey THEN OpenSegment(sample.ts, sample.ts, key)
                 ELSE OpenSegment(c.segment_start_ts, sample.ts, key)
        Done(ok, handed) ==
            /\ last' = Record("ingest", Some(sample), None, ok, handed, cutoff)
            /\ faults' = IF ok THEN faults ELSE faults + 1
            /\ fault = "none" <=> ok
    IN  /\ samples' = samples + 1
        /\ now' = sample.ts
        /\ apps' = c.apps
        /\ titles' = c.titles
        /\ app_cache' = c.app_cache
        /\ title_cache' = c.title_cache
        /\ UNCHANGED <<rotate_every_secs, flush_calls>>
        /\ IF ~c.ok \/ truncFails
           THEN \* `?` returns before the open segment is touched
                /\ current' = EarlyReturn(current)
                /\ UNCHANGED segments
                /\ Done(FALSE, <<>>)
           ELSE IF sameKey /\ ~rotate
           THEN /\ current' = Some(extended)
                /\ segments' = truncated
                /\ Done(TRUE, <<>>)
           ELSE IF IsSome(current)
           THEN \* rotation, or a key change with a previous segment
                /\ segments' = f.segments
                /\ current' = IF f.ok THEN Some(fresh) ELSE Take(current)
                /\ Done(f.ok, <<SegmentInsertOf(flushed)>>)
           ELSE /\ segments' = truncated
                /\ current' = Some(fresh)
                /\ Done(TRUE, <<>>)

\* Recorder::flush_and_close(now_ts), the whole call.
FlushAndCloseStep(now_ts, fault) ==
    LET closing == [Unwrap(current) EXCEPT
                       !.end_ts = CloseEnd(Unwrap(current).end_ts, now_ts)]
        f == FlushSegment(segments, closing, fault)
        Done(ok, handed) ==
            /\ last' = Record("flush_and_close", None, Some(now_ts), ok,
                              handed, None)
            /\ faults' = IF ok THEN faults ELSE faults + 1
            /\ fault = "none" <=> ok
    IN  /\ flush_calls' = flush_calls + 1
        /\ UNCHANGED <<rotate_every_secs, apps, titles, app_cache,
                       title_cache, now, samples, run>>
        /\ IF IsSome(current)
           THEN /\ current' = Take(current)
                /\ segments' = f.segments
                /\ Done(f.ok, <<SegmentInsertOf(closing)>>)
           ELSE /\ UNCHANGED <<current, segments>>
                /\ Done(TRUE, <<>>)

\* ------------------------------------------------------- specification
\* Samples the monitor can hand over at ts.
SamplesAt(ts) ==
    {IdleSample(ts, ms) : ms \in IdleMsValues}
        \cup {ActiveSample(ts, w) : w \in ActiveWindow}

\* unix_seconds_now() of the next sample: the clock never goes back.
NextTs == {t \in {now + d : d \in ClockSteps} : t <= MaxTs}

\* unix_seconds_now() of the shutdown path, after the last sample; a clock
\* set back by one second is included.
CloseTs == {t \in (now - 1)..(now + 1) : t >= 0}

\* At most one storage call of a run returns Err.
FaultChoices == IF faults = 0 THEN Faults ELSE {"none"}

\* Recorder::new(db, rotate_every) in a process that has just started.
FreshRecorder ==
    /\ current = None
    /\ app_cache = << >>
    /\ title_cache = << >>
    /\ now = 2
    /\ samples = 0
    /\ flush_calls = 0
    /\ faults = 0
    /\ last = [op |-> "new", sample |-> None, now_ts |-> None,
               result |-> "Ok", before |-> None, handed |-> <<>>,
               cutoff |-> None]
    /\ run = None
    /\ pc = "check"
    /\ shutdown = FALSE
    /\ tx = None
    /\ seen = None
    /\ procs = << >>

\* Database::open on a path where no store exists: the schema, no rows.
EmptyStore ==
    /\ segments = {}
    /\ apps = {}
    /\ titles = {}

Fresh == FreshRecorder /\ EmptyStore

Init == Fresh /\ rotate_every_secs \in RotateChoices

\* main: the sampling loop calls ingest until shutdown is observed, and
\* flush_and_close once after the loop.
Ingest ==
    /\ flush_calls = 0
    /\ samples < MaxSamples
    /\ \E ts \in NextTs : \E sample \in SamplesAt(ts) :
       \E fault \in FaultChoices : IngestStep(sample, fault)
    /\ UNCHANGED <<run, outside>>

FlushAndClose ==
    /\ flush_calls = 0
    /\ \E now_ts \in CloseTs :
       \E fault \in FaultChoices \cap {"none", "insert_segment"} :
          FlushAndCloseStep(now_ts, fault)
    /\ UNCHANGED outside

Next == Ingest \/ FlushAndClose

Spec == Init /\ [][Next]_vars

\* The same program when no storage call fails.
IngestOk ==
    /\ flush_calls = 0
    /\ samples < MaxSamples
    /\ \E ts \in NextTs : \E sample \in SamplesAt(ts) :
          IngestStep(sample, "none")
    /\ UNCHANGED <<run, outside>>

FlushAndCloseOk ==
    /\ flush_calls = 0
    /\ \E now_ts \in CloseTs : FlushAndCloseStep(now_ts, "none")
    /\ UNCHANGED outside

NextOk == IngestOk \/ FlushAndCloseOk

SpecOk == Init /\ [][NextOk]_vars

\* A caller that calls flush_and_close a second time, after a short run.
IngestBrief ==
    /\ flush_calls = 0
    /\ samples < MaxBriefSamples
    /\ \E ts \in NextTs : \E sample \in SamplesAt(ts) :
       \E fault \in FaultChoices : IngestStep(sample, fault)
    /\ UNCHANGED <<run, outside>>

FlushAndCloseFirst ==
    /\ flush_calls = 0
    /\ \E now_ts \in CloseTs :
       \E fault \in FaultChoices \cap {"none", "insert_segment"} :
          FlushAndCloseStep(now_ts, fault)
    /\ UNCHANGED outside

FlushAndCloseAgain ==
    /\ flush_calls = 1
    /\ \E now_ts \in 0..MaxTs :
       \E fault \in FaultChoices \cap {"none", "insert_segment"} :
          FlushAndCloseStep(now_ts, fault)
    /\ UNCHANGED outside

NextRepeat == IngestBrief \/ FlushAndCloseFirst \/ FlushAndCloseAgain

SpecRepeat == Init /\ [][NextRepeat]_vars

\* A steady run: one Active window sampled once per second from t0, no
\* storage error, then flush_and_close at the last sample's second or the
\* one after it.
InitSteady == Fresh /\ rotate_every_secs \in 1..MaxRotate

IngestSteady ==
    /\ flush_calls = 0
    /\ \E w \in ActiveWindow :
       \E ts \in (IF samples = 0 THEN {now, now + 1} ELSE {now + 1}) :
          /\ ts <= MaxSteadyTs
          /\ samples > 0 => Unwrap(run).window = w
          /\ IngestStep(ActiveSample(ts, w), "none")
          /\ run' = Some([t0 |-> IF samples = 0 THEN ts ELSE Unwrap(run).t0,
                          window |-> w])
    /\ UNCHANGED outside

FlushAndCloseSteady ==
    /\ flush_calls = 0
    /\ samples > 0
    /\ \E now_ts \in {now, now + 1} : FlushAndCloseStep(now_ts, "none")
    /\ UNCHANGED outside

NextSteady == IngestSteady \/ FlushAndCloseSteady

SpecSteady == InitSteady /\ [][NextSteady]_vars

\* ------------------------------------------------------------ main loop
\* Mutant: the loop ends without the shutdown call.
AfterCheck_NoFlush(flag) == IF flag THEN "done" ELSE "body"

\* `while !shutdown.load(..)`: the position after the loop condition.
AfterCheck(flag) == IF flag THEN "close" ELSE "body"

\* Mutant: an ingest error leaves the loop.
AfterIngest_StopOnErr(result) == IF result = "Err" THEN "close" ELSE "sleep"

\* `if let Err(err) = recorder.ingest(sample) { eprintln!(..) }`: the
\* position after the call, whatever it returned.
AfterIngest(result) == "sleep"

\* The ctrl-c handler, on its own thread: shutdown_signal.store(true).
Signal ==
    /\ pc # "done"
    /\ ~shutdown
    /\ shutdown' = TRUE
    /\ UNCHANGED <<current, rotate_every_secs, segments, apps, titles,
                   app_cache, title_cache, now, samples, flush_calls,
                   faults, last, run, pc, tx, seen, procs>>

\* The loop condition.  An iteration past the last one the model follows
\* is not started: the loop then waits for the signal.
LoopCheck ==
    /\ pc = "check"
    /\ shutdown \/ samples < MaxLoopSamples
    /\ pc' = AfterCheck(shutdown)
    /\ UNCHANGED <<current, rotate_every_secs, segments, apps, titles,
                   app_cache, title_cache, now, samples, flush_calls,
                   faults, last, run, shutdown, tx, seen, procs>>

\* The samples of the loop: the poll interval is at most a second, and the
\* monitor reports idle time in whole seconds and two of the windows.
LoopSamplesAt(ts) ==
    {IdleSample(ts, 2000)}
        \cup {ActiveSample(ts, w) : w \in {v \in ActiveWindow :
                                               v.pid_create_time # Some(2)}}

LoopTs == {t \in {now, now + 1} : t <= MaxTs}

\* monitor.capture() and recorder.ingest(sample).
LoopBody ==
    /\ pc = "body"
    /\ \E ts \in LoopTs : \E sample \in LoopSamplesAt(ts) :
       \E fault \in FaultChoices : IngestStep(sample, fault)
    /\ pc' = AfterIngest(last'.result)
    /\ UNCHANGED <<run, shutdown, tx, seen, procs>>

\* thread::sleep(config.poll_interval).
Sleep ==
    /\ pc = "sleep"
    /\ pc' = "check"
    /\ UNCHANGED <<current, rotate_every_secs, segments, apps, titles,
                   app_cache, title_cache, now, samples, flush_calls,
                   faults, last, run, shutdown, tx, seen, procs>>

\* recorder.flush_and_close(unix_seconds_now())?, then main returns.
Close ==
    /\ pc = "close"
    /\ \E now_ts \in CloseTs :
       \E fault \in FaultChoices \cap {"none", "insert_segment"} :
          FlushAndCloseStep(now_ts, fault)
    /\ pc' = "done"
    /\ UNCHANGED <<shutdown, tx, seen, procs>>

NextMain == Signal \/ LoopCheck \/ LoopBody \/ Sleep \/ Close

\* The main thread is scheduled, and ingest, sleep and flush_and_close
\* return; nothing is assumed about when the signal arrives.
SpecMain ==
    /\ Init
    /\ [][NextMain]_vars
    /\ WF_vars(LoopCheck)
    /\ WF_vars(LoopBody)
    /\ WF_vars(Sleep)
    /\ WF_vars(Close)

\* ----------------------------------------------- the store, call by call
\* The apps row an earlier run of the backend left for b.exe.
StoredApp == [id |-> 1, exe_name |-> "b.exe", process_path |-> "C:/b.exe"]

\* The keys of the rows handed to insert_segment: idle, and b.exe.
DbKeys ==
    {IdleKey,
     ActiveKey(StoredApp.id, None, Window(9, None, "b.exe", "C:/b.exe", ""))}

\* start_ts and end_ts of the rows handed to insert_segment.
DbTs == {1, 2, 3}

\* The SegmentInsert values handed to insert_segment; end_ts <= start_ts
\* included.
DbSegmentInserts ==
    {SegmentInsertOf(OpenSegment(s, e, k)) :
        s \in DbTs, e \in DbTs, k \in DbKeys}

\* The cutoffs handed to truncate_active_segments_from: at the first
\* start_ts (every active row goes), inside the rows, and at the last end_ts
\* (no row is touched).
DbCutoffs == {1, 2, 3}

DbRecord(op, arg, ok, pre, failed) ==
    [op |-> op, arg |-> arg, result |-> IF ok THEN "Ok" ELSE "Err",
     pre |-> pre, failed |-> failed]

\* Mutant: the two statements run on the connection, each in its own
\* implicit transaction.
StoreAfterStatement_Autocommit(committed, work) == work

\* The committed table after a statement executed on the Transaction: the
\* change stays in the transaction until COMMIT.
StoreAfterStatement(committed, work) == committed

\* Database::open in a new process, on the store an earlier run left.
InitDb ==
    /\ FreshRecorder
    /\ rotate_every_secs = DefaultRotateSecs
    /\ segments = {}
    /\ apps = {StoredApp}
    /\ titles = {}

\* Database::insert_segment(seg), the whole call.
DbInsert ==
    /\ tx = None
    /\ \E seg \in DbSegmentInserts : \E fault \in {"none", "insert_segment"} :
          LET i == InsertSegmentCall(segments, seg, fault)
          IN  /\ InsertDropsRow(seg) \/ Cardinality(segments) < MaxDbRows
              /\ segments' = i.segments
              /\ last' = DbRecord("insert_segment", seg, i.ok, segments, "")
    /\ seen' = None
    /\ UNCHANGED <<current, rotate_every_secs, apps, titles, app_cache,
                   title_cache, now, samples, flush_calls, faults, run, pc,
                   shutdown, tx, procs>>

\* truncate_active_segments_from(cutoff_ts): self.conn.transaction().
TxBegin ==
    /\ tx = None
    /\ \E cutoff_ts \in DbCutoffs :
          tx' = Some([cutoff_ts |-> cutoff_ts, pre |-> segments,
                      work |-> segments, step |-> "begun"])
    /\ seen' = None
    /\ UNCHANGED <<current, rotate_every_secs, segments, apps, titles,
                   app_cache, title_cache, now, samples, flush_calls,
                   faults, last, run, pc, shutdown, procs>>

\* tx.execute(DELETE ..)?
TxDelete ==
    /\ IsSome(tx)
    /\ Unwrap(tx).step = "begun"
    /\ LET t == Unwrap(tx)
           work == DeleteStatement(t.work, t.cutoff_ts)
       IN  /\ tx' = Some([t EXCEPT !.work = work, !.step = "deleted"])
           /\ segments' = StoreAfterStatement(segments, work)
    /\ UNCHANGED <<current, rotate_every_secs, apps, titles, app_cache,
                   title_cache, now, samples, flush_calls, faults, last,
                   run, pc, shutdown, seen, procs>>

\* tx.execute(UPDATE ..)?
TxTrim ==
    /\ IsSome(tx)
    /\ Unwrap(tx).step = "deleted"
    /\ LET t == Unwrap(tx)
           work == UpdateStatement(t.work, t.cutoff_ts)
       IN  /\ tx' = Some([t EXCEPT !.work = work, !.step = "trimmed"])
           /\ segments' = StoreAfterStatement(segments, work)
    /\ UNCHANGED <<current, rotate_every_secs, apps, titles, app_cache,
                   title_cache, now, samples, flush_calls, faults, last,
                   run, pc, shutdown, seen, procs>>

\* tx.commit()? succeeds, and the call returns Ok.
TxCommit ==
    /\ IsSome(tx)
    /\ Unwrap(tx).step = "trimmed"
    /\ segments' = Unwrap(tx).work
    /\ tx' = None
    /\ last' = DbRecord("truncate", Unwrap(tx).cutoff_ts, TRUE,
                        Unwrap(tx).pre, "")
    /\ UNCHANGED <<current, rotate_every_secs, apps, titles, app_cache,
                   title_cache, now, samples, flush_calls, faults, run, pc,
                   shutdown, seen, procs>>

\* The next statement of the transaction (DELETE, UPDATE or COMMIT) returns
\* Err: `?` returns, the Transaction is dropped and rolls back.
TxFail ==
    /\ IsSome(tx)
    /\ tx' = None
    /\ last' = DbRecord("truncate", Unwrap(tx).cutoff_ts, FALSE,
                        Unwrap(tx).pre,
                        CASE Unwrap(tx).step = "begun" -> "delete"
                          [] Unwrap(tx).step = "deleted" -> "trim"
                          [] OTHER -> "commit")
    /\ UNCHANGED <<current, rotate_every_secs, segments, apps, titles,
                   app_cache, title_cache, now, samples, flush_calls,
                   faults, run, pc, shutdown, seen, procs>>

\* A reader in another process (the viewer) reads the segments table: it
\* sees the committed rows.
Read ==
    /\ IsSome(tx) \/ last.op = "truncate"
    /\ seen # Some(segments)
    /\ seen' = Some(segments)
    /\ UNCHANGED <<current, rotate_every_secs, segments, apps, titles,
                   app_cache, title_cache, now, samples, flush_calls,
                   faults, last, run, pc, shutdown, tx, procs>>

NextDb ==
    DbInsert \/ TxBegin \/ TxDelete \/ TxTrim \/ TxCommit \/ TxFail \/ Read

SpecDb == InitDb /\ [][NextDb]_vars

\* ------------------------------------------------ the dimension upserts
\* Two programs that share exe_name, at different paths; two titles.
AppPairs == {<<"a.exe", "C:/a.exe">>, <<"a.exe", "D:/a.exe">>}

TitleValues == {"t", "u"}

\* One Ok return of an upsert: which table, which key (a tuple: the pair,
\* or the title alone), which id.
Returned(op, key, id) == [op |-> op, key |-> key, id |-> id]

UpsertRecord(op, key, fault, ok, id, hit) ==
    [op |-> op, arg |-> key, fault |-> fault,
     result |-> IF ok THEN "Ok" ELSE "Err", id |-> id, hit |-> hit,
     again |-> \E h \in run : h.op = op /\ h.key = key]

\* Database::upsert_app(exe_name, process_path), the whole call; run
\* collects what the calls have returned.
UpsertAppCall ==
    /\ \E key \in AppPairs :
       \E fault \in {"none", "app_insert", "app_readback"} :
          LET u == UpsertApp(apps, app_cache, key[1], key[2], fault)
          IN  /\ apps' = u.apps
              /\ app_cache' = u.cache
              /\ last' = UpsertRecord("upsert_app", key, fault, u.ok, u.id,
                                      key \in DOMAIN app_cache)
              /\ run' = IF u.ok
                        THEN run \cup {Returned("upsert_app", key, u.id)}
                        ELSE run
    /\ UNCHANGED <<current, rotate_every_secs, segments, titles,
                   title_cache, now, samples, flush_calls, faults, pc,
                   shutdown, tx, seen, procs>>

\* Database::upsert_title(title), the whole call.
UpsertTitleCall ==
    /\ \E title \in TitleValues :
       \E fault \in {"none", "title_insert", "title_readback"} :
          LET u == UpsertTitle(titles, title_cache, title, fault)
          IN  /\ titles' = u.titles
              /\ title_cache' = u.cache
              /\ last' = UpsertRecord("upsert_title", <<title>>, fault, u.ok,
                                      u.id, title \in DOMAIN title_cache)
              /\ run' = IF u.ok
                        THEN run \cup {Returned("upsert_title", <<title>>,
                                                u.id)}
                        ELSE run
    /\ UNCHANGED <<current, rotate_every_secs, segments, apps, app_cache,
                   now, samples, flush_calls, faults, pc, shutdown, tx,
                   seen, procs>>

\* The backend is started again on the same store: Database::open builds
\* empty caches.
Reopen ==
    /\ app_cache # << >> \/ title_cache # << >>
    /\ app_cache' = << >>
    /\ title_cache' = << >>
    /\ UNCHANGED <<current, rotate_every_secs, segments, apps, titles, now,
                   samples, flush_calls, faults, last, run, pc, shutdown,
                   tx, seen, procs>>

NextUpsert == UpsertAppCall \/ UpsertTitleCall \/ Reopen

SpecUpsert == Init /\ [][NextUpsert]_vars

\* ------------------------------------- upsert_app from two processes
\* Two processes, each with its own Database (connection and caches), on
\* one store.  Statements run in autocommit: each is atomic, and the two
\* processes interleave statement by statement.
PeerIds == {1, 2}

PeerState(at, key, cache, overlapped) ==
    [pc |-> at, key |-> key, cache |-> cache, overlapped |-> overlapped]

\* What upsert_app returned to process p.
PeerReturn(p, key, ok, id, overlapped) ==
    [proc |-> p, key |-> key, result |-> IF ok THEN "Ok" ELSE "Err",
     id |-> id, overlapped |-> overlapped]

\* Another process is between its INSERT and its SELECT for the same pair.
PeerInFlight(p, key) ==
    \E q \in DOMAIN procs :
        q # p /\ procs[q].pc = "select" /\ procs[q].key = key

PeerUnchanged ==
    UNCHANGED <<current, rotate_every_secs, segments, titles, app_cache,
                title_cache, now, samples, flush_calls, faults, last, pc,
                shutdown, tx, seen>>

\* Database::open in process p.
PeerOpen(p) ==
    /\ p \notin DOMAIN procs
    /\ procs' = procs @@ (p :> PeerState("idle", << >>, << >>, FALSE))
    /\ UNCHANGED <<apps, run>>
    /\ PeerUnchanged

\* upsert_app is called in process p: the cache lookup; a hit returns.
PeerCall(p) ==
    /\ p \in DOMAIN procs
    /\ procs[p].pc = "idle"
    /\ \E key \in AppPairs :
          IF key \in DOMAIN procs[p].cache
          THEN /\ run' = run \cup {PeerReturn(p, key, TRUE,
                                              procs[p].cache[key], FALSE)}
               /\ UNCHANGED procs
          ELSE /\ procs' = [procs EXCEPT ![p].pc = "insert", ![p].key = key,
                                         ![p].overlapped = FALSE]
               /\ UNCHANGED run
    /\ UNCHANGED apps
    /\ PeerUnchanged

\* The INSERT .. ON CONFLICT DO NOTHING of process p.
PeerInsert(p) ==
    /\ p \in DOMAIN procs
    /\ procs[p].pc = "insert"
    /\ LET key == procs[p].key
       IN  /\ apps' = AppInsert(apps, key[1], key[2])
           /\ procs' = [procs EXCEPT
                           ![p].pc = "select",
                           ![p].overlapped = PeerInFlight(p, key)]
    /\ UNCHANGED run
    /\ PeerUnchanged

\* The SELECT id of process p, the cache insert and the return.
PeerSelect(p) ==
    /\ p \in DOMAIN procs
    /\ procs[p].pc = "select"
    /\ LET key == procs[p].key
           sel == AppSelectId(apps, key[1], key[2])
       IN  IF IsSome(sel)
           THEN /\ procs' = [procs EXCEPT
                                ![p].pc = "idle",
                                ![p].cache = @ @@ (key :> Unwrap(sel))]
                /\ run' = run \cup {PeerReturn(p, key, TRUE, Unwrap(sel),
                                               procs[p].overlapped)}
           ELSE /\ procs' = [procs EXCEPT ![p].pc = "idle"]
                /\ run' = run \cup {PeerReturn(p, key, FALSE, 0,
                                               procs[p].overlapped)}
    /\ UNCHANGED apps
    /\ PeerUnchanged

NextPeers ==
    \E p \in PeerIds :
        PeerOpen(p) \/ PeerCall(p) \/ PeerInsert(p) \/ PeerSelect(p)

SpecPeers == Init /\ [][NextPeers]_vars

\* ------------------------------------------------------------ startup
\* main() of the backend from process start to exit, for the backends that
\* resolve Local\LimeTraceBackendSingleton to one kernel object.  procs maps
\* a backend to where its main() is; the recorder variables are those of
\* the backend that has built a Recorder, and the tables are the one file
\* all of them open.

BackendIds == {1, 2}

\* --rotate-secs on the command line: absent, or the parsed u64.
RotateArgs == {None, Some(0), Some(1)}

BackendState(at, rotate_arg) ==
    [pc |-> at, rotate_arg |-> rotate_arg, handle |-> FALSE,
     already |-> FALSE, shutdown |-> FALSE, opened |-> FALSE,
     ingests |-> 0, closes |-> 0, exit |-> ""]

\* The named mutex exists while some process has a handle to it open.
MutexExists == \E q \in DOMAIN procs : procs[q].handle

\* Mutant: ERROR_ALREADY_EXISTS is not looked at.
GuardOutcome_IgnoresExisting(handle, already) ==
    IF ~handle THEN "Err" ELSE "Some"

\* acquire_single_instance_guard after CreateMutexW returned: Err for a
\* null handle, Ok(None) when the mutex was already there, else Ok(Some).
GuardOutcome(handle, already) ==
    IF ~handle THEN "Err"
    ELSE IF already THEN "None"
    ELSE "Some"

\* Config::from_args as far as --rotate-secs goes: the seconds handed to
\* Recorder::new, or nothing when it bails.
ConfigFromArgs(rotate_arg) ==
    LET rotate_secs == IF IsSome(rotate_arg) THEN Unwrap(rotate_arg)
                       ELSE DefaultRotateSecs
    IN  IF rotate_secs = 0 THEN None ELSE Some(rotate_secs)

StartUnchanged ==
    UNCHANGED <<current, rotate_every_secs, segments, apps, titles,
                app_cache, title_cache, now, samples, flush_calls, faults,
                last, run, pc, shutdown, tx, seen>>

\* A backend process is started.
Launch(p) ==
    /\ p \notin DOMAIN procs
    /\ \E rotate_arg \in RotateArgs :
          procs' = procs @@ (p :> BackendState("guard", rotate_arg))
    /\ StartUnchanged

\* CreateMutexW: one kernel call that opens a handle to the mutex, creating
\* it if need be, and leaves ERROR_ALREADY_EXISTS if it was there; or fails
\* and returns null.
CreateMutex(p) ==
    /\ p \in DOMAIN procs
    /\ procs[p].pc = "guard"
    /\ \E created \in BOOLEAN :
          procs' = [procs EXCEPT ![p].pc = "guarded",
                                 ![p].handle = created,
                                 ![p].already = created /\ MutexExists]
    /\ StartUnchanged

\* The rest of acquire_single_instance_guard and the match in main.
GuardResult(p) ==
    /\ p \in DOMAIN procs
    /\ procs[p].pc = "guarded"
    /\ LET outcome == GuardOutcome(procs[p].handle, procs[p].already)
       IN  procs' =
             IF outcome = "Some"
             THEN [procs EXCEPT ![p].pc = "config"]
             ELSE [procs EXCEPT ![p].pc = "exited",
                                ![p].handle = FALSE,
                                ![p].exit = IF outcome = "None"
                                            THEN "guard_held"
                                            ELSE "guard_err"]
    /\ StartUnchanged

\* Config::from_args()?
ParseArgs(p) ==
    /\ p \in DOMAIN procs
    /\ procs[p].pc = "config"
    /\ procs' =
         IF IsSome(ConfigFromArgs(procs[p].rotate_arg))
         THEN [procs EXCEPT ![p].pc = "open"]
         ELSE [procs EXCEPT ![p].pc = "exited", ![p].handle = FALSE,
                            ![p].exit = "config_err"]
    /\ StartUnchanged

\* Database::open(..)? and Recorder::new.
OpenDb(p) ==
    /\ p \in DOMAIN procs
    /\ procs[p].pc = "open"
    /\ \E ok \in BOOLEAN :
          IF ok
          THEN /\ procs' = [procs EXCEPT ![p].pc = "loop",
                                         ![p].opened = TRUE]
               /\ current' = None
               /\ app_cache' = << >>
               /\ title_cache' = << >>
               /\ rotate_every_secs' =
                      Unwrap(ConfigFromArgs(procs[p].rotate_arg))
          ELSE /\ procs' = [procs EXCEPT ![p].pc = "exited",
                                         ![p].handle = FALSE,
                                         ![p].exit = "open_err"]
               /\ UNCHANGED <<current, app_cache, title_cache,
                              rotate_every_secs>>
    /\ UNCHANGED <<segments, apps, titles, now, samples, flush_calls,
                   faults, last, run, pc, shutdown, tx, seen>>

\* Ctrl-C once the handler is registered.
BackendSignal(p) ==
    /\ p \in DOMAIN procs
    /\ procs[p].pc = "loop"
    /\ ~procs[p].shutdown
    /\ procs' = [procs EXCEPT ![p].shutdown = TRUE]
    /\ StartUnchanged

\* One iteration of the loop: capture, ingest, sleep.
BackendIngest(p) ==
    /\ p \in DOMAIN procs
    /\ procs[p].pc = "loop"
    /\ ~procs[p].shutdown
    /\ samples < MaxStartSamples
    /\ \E ts \in LoopTs : \E sample \in LoopSamplesAt(ts) :
       \E fault \in FaultChoices : IngestStep(sample, fault)
    /\ procs' = [procs EXCEPT ![p].ingests = @ + 1]
    /\ UNCHANGED <<run, pc, shutdown, tx, seen>>

\* The loop ends; flush_and_close, and main returns, dropping the guard.
BackendClose(p) ==
    /\ p \in DOMAIN procs
    /\ procs[p].pc = "loop"
    /\ procs[p].shutdown
    /\ \E now_ts \in CloseTs :
       \E fault \in FaultChoices \cap {"none", "insert_segment"} :
          FlushAndCloseStep(now_ts, fault)
    /\ procs' = [procs EXCEPT ![p].pc = "exited", ![p].handle = FALSE,
                              ![p].closes = @ + 1,
                              ![p].exit = IF last'.result = "Ok"
                                          THEN "ok" ELSE "close_err"]
    /\ UNCHANGED <<run, pc, shutdown, tx, seen>>

InitStart == Fresh /\ rotate_every_secs = DefaultRotateSecs

NextStart ==
    \E p \in BackendIds :
        \/ Launch(p)
        \/ CreateMutex(p)
        \/ GuardResult(p)
        \/ ParseArgs(p)
        \/ OpenDb(p)
        \/ BackendSignal(p)
        \/ BackendIngest(p)
        \/ BackendClose(p)

SpecStart == InitStart /\ [][NextStart]_vars

\* ------------------------------------------------------------ idle samples
\* Recorder::ingest on any ActivitySample: ts anywhere in the range of i64,
\* in any order, idle_ms on both sides of whole seconds.

IdleTsValues == {I64Min, I64Min + 1, I64Min + 2, 0, 3, I64Max}

IdleMsWide == {0, 999, 1000, 1999, 2000, 3999}

AnySamples ==
    {IdleSample(ts, idle_ms) : ts \in IdleTsValues, idle_ms \in IdleMsWide}
        \cup {ActiveSample(ts, Window(9, None, "b.exe", "C:/b.exe", "")) :
                 ts \in IdleTsValues}

IngestAny ==
    /\ samples < MaxIdleSamples
    /\ \E sample \in AnySamples : IngestStep(sample, "none")
    /\ UNCHANGED <<run, outside>>

NextIdle == IngestAny

SpecIdle == InitStart /\ [][NextIdle]_vars

\* ------------------------------------------------------------ titles
\* One process, one window handle: the samples differ in window_title only,
\* which is empty or one of two titles.

WindowTitles == {"", "u", "v"}

TitledWindow ==
    {Window(9, None, "b.exe", "C:/b.exe", title) : title \in WindowTitles}

IngestTitled ==
    /\ samples < MaxTitleSamples
    /\ \E ts \in {t \in {now, now + 1} : t <= MaxTs} :
       \E w \in TitledWindow :
       \E fault \in FaultChoices : IngestStep(ActiveSample(ts, w), fault)
    /\ UNCHANGED <<run, outside>>

NextTitle == IngestTitled

SpecTitle == Init /\ [][NextTitle]_vars

\* ------------------------------------------------------------ monitor
\* WindowsMonitor: run holds the monitor, last the capture call that has
\* returned, with what the system answered and the sample.  A path is the
\* sequence of its components, the drive first.

U32Max == (2 ^ TickBits) - 1

\* process_cache is emptied when it holds this many entries.
ProcessCacheCap == 4096

\* idle_threshold, in milliseconds, as Config hands it over; the last one
\* is past the range of u32 (and all are within u64).
ConfiguredThresholds == {1, 3, U32Max + 2}

\* WindowsMonitor::new: the threshold the monitor holds.
IdleThresholdMs(threshold_ms) == Min(threshold_ms, U32Max)

\* GetLastInputInfo and GetTickCount: the call fails, or <<now_tick,
\* dwTime>>; in <<1, 6>> the tick counter has wrapped since the last input.
InputReads == {None, Some(<<5, 2>>), Some(<<1, 6>>), Some(<<2, 2>>),
               Some(<<0, 1>>)}

\* idle_millis(): now_tick.wrapping_sub(lii.dwTime), if it could be read.
IdleMillis(input) ==
    IF input = None THEN None
    ELSE Some((Unwrap(input)[1] - Unwrap(input)[2]) % (2 ^ TickBits))

\* Mutant: the threshold itself does not count as idle.
IsIdle_Strict(idle, idle_threshold_ms) ==
    IsSome(idle) /\ Unwrap(idle) > idle_threshold_ms

\* Lines 66-67 of capture.
IsIdle(idle, idle_threshold_ms) ==
    IsSome(idle) /\ Unwrap(idle) >= idle_threshold_ms

\* What the calls about the foreground window answer: no window; a window
\* whose pid cannot be read; a window of process 7, whose creation time and
\* image path may each be unavailable (path1 is the answer to the query at
\* line 128, path2 to the one at line 144).
NoWindow ==
    [hwnd |-> FALSE, title |-> "", pid |-> 0, create_time |-> None,
     path1 |-> None, path2 |-> None]

PathReads == {None, Some(<<"C:", "a.exe">>), Some(<<"C:">>)}

WindowReads ==
    {NoWindow}
        \cup {[NoWindow EXCEPT !.hwnd = TRUE, !.title = title] :
                 title \in {"", "t"}}
        \cup {w \in [hwnd : {TRUE}, title : {"", "t"}, pid : {7},
                     create_time : {None, Some(1)}, path1 : PathReads,
                     path2 : {None, Some(<<"C:", "a.exe">>)}] :
                 /\ w.create_time = None => w.path1 = None
                 /\ w.path1 # None => w.path2 = None}

\* Path::file_name: the last component, if there is one after the drive.
FileName(path) == IF Len(path) > 1 THEN Some(path[Len(path)]) ELSE None

\* exe_name_from_path.
ExeNameFromPath(path, pid) ==
    IF IsSome(FileName(path)) THEN Unwrap(FileName(path))
    ELSE <<"pid-", pid>>

\* resolve_process: [exe_name, process_path, cache].
ResolveProcess(cache, pid, w) ==
    LET key == <<pid, w.create_time>>
        hit == IsSome(w.create_time) /\ key \in DOMAIN cache
        first == IsSome(w.create_time) /\ IsSome(w.path1)
        meta1 == [exe_name |-> ExeNameFromPath(Unwrap(w.path1), pid),
                  process_path |-> Unwrap(w.path1)]
        room == IF Cardinality(DOMAIN cache) >= ProcessCacheCap
                THEN << >> ELSE cache
    IN  IF hit
        THEN [exe_name |-> cache[key].exe_name,
              process_path |-> cache[key].process_path, cache |-> cache]
        ELSE IF first
        THEN [exe_name |-> meta1.exe_name,
              process_path |-> meta1.process_path,
              cache |-> room @@ (key :> meta1)]
        ELSE IF IsSome(w.path2)
        THEN [exe_name |-> ExeNameFromPath(Unwrap(w.path2), pid),
              process_path |-> Unwrap(w.path2), cache |-> cache]
        ELSE [exe_name |-> "UNKNOWN", process_path |-> <<"<pid-", pid, ">">>,
              cache |-> cache]

\* WindowsMonitor::capture: [sample, cache].
Capture(m, ts, input, w) ==
    LET idle == IdleMillis(input)
        r == ResolveProcess(m.process_cache, w.pid, w)
    IN  IF IsIdle(idle, m.idle_threshold_ms)
        THEN [sample |-> IdleSample(ts, Unwrap(idle)),
              cache |-> m.process_cache]
        ELSE IF ~w.hwnd
        THEN [sample |-> ActiveSample(ts,
                  Window(0, None, "UNKNOWN",
                         <<"<foreground-window-missing>">>, "")),
              cache |-> m.process_cache]
        ELSE IF w.pid = 0
        THEN [sample |-> ActiveSample(ts,
                  Window(0, None, "UNKNOWN", <<"<pid-missing>">>, w.title)),
              cache |-> m.process_cache]
        ELSE [sample |-> ActiveSample(ts,
                  Window(w.pid, w.create_time, r.exe_name, r.process_path,
                         w.title)),
              cache |-> r.cache]

\* The window is not asked about when the sample is Idle.
WindowReadsAfter(idle, idle_threshold_ms) ==
    IF IsIdle(idle, idle_threshold_ms) THEN {NoWindow} ELSE WindowReads

InitMonitor ==
    /\ EmptyStore
    /\ rotate_every_secs = DefaultRotateSecs
    /\ current = None
    /\ app_cache = << >>
    /\ title_cache = << >>
    /\ now = 2
    /\ samples = 0
    /\ flush_calls = 0
    /\ faults = 0
    /\ last = [op |-> "new", input |-> None, window |-> NoWindow,
               sample |-> None]
    /\ \E threshold_ms \in ConfiguredThresholds :
          run = [idle_threshold_ms |-> IdleThresholdMs(threshold_ms),
                 process_cache |-> << >>]
    /\ pc = "check"
    /\ shutdown = FALSE
    /\ tx = None
    /\ seen = None
    /\ procs = << >>

\* One capture call; the clock has moved on by a second.
CaptureStep ==
    /\ samples < MaxCaptures
    /\ \E input \in InputReads :
       \E w \in WindowReadsAfter(IdleMillis(input), run.idle_threshold_ms) :
          LET c == Capture(run, now + 1, input, w)
          IN  /\ run' = [run EXCEPT !.process_cache = c.cache]
              /\ last' = [op |-> "capture", input |-> input, window |-> w,
                          sample |-> Some(c.sample)]
    /\ now' = now + 1
    /\ samples' = samples + 1
    /\ UNCHANGED <<current, rotate_every_secs, segments, apps, titles,
                   app_cache, title_cache, flush_calls, faults, outside>>

NextMonitor == CaptureStep

SpecMonitor == InitMonitor /\ [][NextMonitor]_vars

\* ------------------------------------------------------------ changing keys
\* Runs of ingest calls in which every sample has another key than the open
\* segment: no two consecutive samples of one run.

IngestChanging ==
    /\ samples < MaxChangingSamples
    /\ \E ts \in NextTs : \E sample \in SamplesAt(ts) :
          /\ IngestStep(sample, "none")
          /\ IsSome(current)
                => Unwrap(current).key # Unwrap(current').key
    /\ UNCHANGED <<run, outside>>

NextChanging == IngestChanging

SpecChanging == Init /\ [][NextChanging]_vars

\* ------------------------------------------------------------ truncations
\* truncate_active_segments_from called again and again on one table, as
\* consecutive Idle samples do.  seen holds the table before the first call,
\* run the calls so far: the cutoff and the table after the call.

TruncSpans ==
    {<<s, e>> \in (0..MaxTruncTs) \X (0..MaxTruncTs) : s < e}

\* Rows as insert_segment stores them: of positive duration, of any key,
\* overlapping or not.
TruncRows(id) ==
    {RowOf(id, SegmentInsertOf(OpenSegment(span[1], span[2], k))) :
        span \in TruncSpans, k \in DbKeys}

TruncTables ==
    {{}} \cup {{r} : r \in TruncRows(1)}
         \cup {{r1, r2} : r1 \in TruncRows(1), r2 \in TruncRows(2)}

TruncCutoffs == 0..(MaxTruncTs + 1)

InitTrunc ==
    /\ segments \in TruncTables
    /\ seen = Some(segments)
    /\ run = << >>
    /\ apps = {StoredApp}
    /\ titles = {}
    /\ rotate_every_secs = DefaultRotateSecs
    /\ current = None
    /\ app_cache = << >>
    /\ title_cache = << >>
    /\ now = 2
    /\ samples = 0
    /\ flush_calls = 0
    /\ faults = 0
    /\ last = [op |-> "open"]
    /\ pc = "check"
    /\ shutdown = FALSE
    /\ tx = None
    /\ procs = << >>

\* One call that commits.
TruncateCall ==
    /\ Len(run) < MaxTruncations
    /\ \E cutoff_ts \in TruncCutoffs :
          /\ segments' = TruncateActiveSegmentsFrom(segments, cutoff_ts)
          /\ run' = Append(run, [cutoff_ts |-> cutoff_ts,
                                 after |-> segments'])
          /\ last' = [op |-> "truncate"]
    /\ UNCHANGED <<current, rotate_every_secs, apps, titles, app_cache,
                   title_cache, now, samples, flush_calls, faults, pc,
                   shutdown, tx, seen, procs>>

NextTrunc == TruncateCall

SpecTrunc == InitTrunc /\ [][NextTrunc]_vars

\* ------------------------------------------------------------ tally
\* The runs of Spec in which no storage call but the INSERT of a segment
\* fails, with run counting the ingest calls that closed a segment: those
\* that changed key with a segment open, or rotated.

InitTally ==
    /\ EmptyStore
    /\ rotate_every_secs \in RotateChoices
    /\ current = None
    /\ app_cache = << >>
    /\ title_cache = << >>
    /\ now = 2
    /\ samples = 0
    /\ flush_calls = 0
    /\ faults = 0
    /\ last = [op |-> "new", sample |-> None, now_ts |-> None,
               result |-> "Ok", before |-> None, handed |-> <<>>,
               cutoff |-> None]
    /\ run = 0
    /\ pc = "check"
    /\ shutdown = FALSE
    /\ tx = None
    /\ seen = None
    /\ procs = << >>

IngestTally ==
    /\ flush_calls = 0
    /\ samples < MaxSamples
    /\ \E ts \in NextTs : \E sample \in SamplesAt(ts) :
       \E fault \in FaultChoices \cap {"none", "insert_segment"} :
          IngestStep(sample, fault)
    /\ run' = IF last'.handed # <<>> THEN run + 1 ELSE run
    /\ UNCHANGED outside

FlushAndCloseTally ==
    /\ flush_calls = 0
    /\ \E now_ts \in CloseTs :
       \E fault \in FaultChoices \cap {"none", "insert_segment"} :
          FlushAndCloseStep(now_ts, fault)
    /\ UNCHANGED outside

NextTally == IngestTally \/ FlushAndCloseTally

SpecTally == InitTally /\ [][NextTally]_vars

\* ------------------------------------------------------------ properties
\* [a_start, a_end) and [b_start, b_end) share a second.
Overlap(a_start, a_end, b_start, b_end) ==
    Max(a_start, b_start) < Min(a_end, b_end)

LastIngest == last.op = "ingest"

LastIngestOk == last.op = "ingest" /\ last.result = "Ok"

LastSample == Unwrap(last.sample)

LastIdleOk == LastIngestOk /\ LastSample.kind = "Idle"

\* The cutoff of an Idle sample, from its fields: ts - idle_ms / 1000.
CutoffOf(sample) == sample.ts - (sample.idle_ms \div 1000)

\* The key fields of a persisted row, as a SegmentKey.
KeyOfRow(r) ==
    [app_id |-> r.app_id, title_id |-> r.title_id, is_idle |-> r.is_idle,
     pid |-> r.pid, pid_create_time |-> r.pid_create_time]

\* C1: in every reachable state the open segment's [start_ts, end_ts) shares
\* no second with the [start_ts, end_ts) of any persisted row, idle rows
\* included.
C1_OpenSegmentOverlapsNoRow ==
    \A c \in current : \A r \in segments :
        ~Overlap(c.start_ts, c.end_ts, r.start_ts, r.end_ts)

\* C2: no two persisted rows have overlapping [start_ts, end_ts), whatever
\* their keys.
C2_NoTwoRowsOverlap ==
    \A r1 \in segments : \A r2 \in segments :
        r1.id # r2.id
            => ~Overlap(r1.start_ts, r1.end_ts, r2.start_ts, r2.end_ts)

\* C3: when ingest of an Idle sample with cutoff c returns Ok, no persisted
\* active row has end_ts > c, the row flushed from the open active segment
\* by that call included.
C3_NoActiveRowPastCutoff ==
    LastIdleOk =>
        \A r \in segments : ~r.is_idle => r.end_ts <= CutoffOf(LastSample)

\* C3 witness: the open active segment reached past the cutoff and was
\* flushed, clamped, by the Idle ingest.
C3_Witness ==
    /\ LastIdleOk
    /\ \E b \in last.before :
          /\ ~b.key.is_idle
          /\ b.start_ts < CutoffOf(LastSample)
          /\ b.end_ts > CutoffOf(LastSample)
          /\ \E r \in segments : /\ KeyOfRow(r) = b.key
                                 /\ r.start_ts = b.start_ts
                                 /\ r.end_ts = CutoffOf(LastSample)

\* An Idle sample is ingested, with result Ok, while an active segment is open.
IdleAfterActiveStep ==
    /\ samples' = samples + 1
    /\ last'.result = "Ok"
    /\ Unwrap(last'.sample).kind = "Idle"
    /\ IsSome(current)
    /\ ~Unwrap(current).key.is_idle

\* The row of key k starting at start_ts is persisted and ends by c.
RowKeptUpTo(tbl, k, start_ts, c) ==
    \E r \in tbl : KeyOfRow(r) = k /\ r.start_ts = start_ts /\ r.end_ts <= c

\* C4 as stated: an active segment [s, e] held open when an Idle sample with
\* cutoff c > s is ingested leaves a persisted active row starting at s with
\* end_ts <= c, and the new open segment is idle, [c, sample.ts].
C4_Orig_OpenSegmentRowKept ==
    LastIdleOk =>
        \A b \in last.before :
            (~b.key.is_idle /\ b.start_ts < CutoffOf(LastSample))
                => /\ RowKeptUpTo(segments, b.key, b.start_ts,
                                  CutoffOf(LastSample))
                   /\ current = Some(OpenSegment(CutoffOf(LastSample),
                                                 LastSample.ts, IdleKey))

\* C4 (amended): when ingest of an Idle sample with cutoff c returns Ok while
\* an active segment is open, every active segment with start_ts = s < c and
\* s < end_ts (the open one, and every persisted active row) leaves a
\* persisted active row of its key starting at s with end_ts <= c, and the
\* new open segment is idle with start_ts = c and end_ts = sample.ts.
C4_TrimmedNotDeleted ==
    [][IdleAfterActiveStep =>
        LET c == CutoffOf(Unwrap(last'.sample))
            open == Unwrap(current)
        IN  /\ (open.start_ts < c /\ open.start_ts < open.end_ts)
                   => RowKeptUpTo(segments', open.key, open.start_ts, c)
            /\ \A r \in segments :
                   (~r.is_idle /\ r.start_ts < c)
                       => RowKeptUpTo(segments', KeyOfRow(r), r.start_ts, c)
            /\ current' = Some(OpenSegment(c, Unwrap(last'.sample).ts,
                                           IdleKey))]_vars

\* C4 witness: a row of the open segment's key, flushed by rotation, has
\* been trimmed to the cutoff, which lies before the open segment's start.
C4_Witness ==
    /\ LastIdleOk
    /\ \E b \in last.before : \E r \in segments :
          /\ ~b.key.is_idle
          /\ KeyOfRow(r) = b.key
          /\ r.start_ts < CutoffOf(LastSample)
          /\ r.end_ts = CutoffOf(LastSample)
          /\ r.end_ts < b.start_ts
    /\ current = Some(OpenSegment(CutoffOf(LastSample), LastSample.ts,
                                  IdleKey))

\* C5: when ingest of an Idle sample with cutoff c returns Ok, no active
\* segment with start_ts >= c leaves a persisted row: no persisted active
\* row starts at or after c, and an open active segment that starts at or
\* after c is handed to insert_segment with end_ts <= start_ts and dropped.
C5_FullOverlapLeavesNoRow ==
    LastIdleOk =>
        LET c == CutoffOf(LastSample)
        IN  /\ \A r \in segments : ~r.is_idle => r.start_ts < c
            /\ \A b \in last.before :
                   (~b.key.is_idle /\ b.start_ts >= c)
                       => /\ Len(last.handed) = 1
                          /\ last.handed[1].start_ts = b.start_ts
                          /\ last.handed[1].end_ts = Min(b.end_ts, c)
                          /\ InsertDropsRow(last.handed[1])

\* C5 witness: an open active segment of non-zero duration that starts at or
\* after the cutoff has been dropped.
C5_Witness ==
    /\ LastIdleOk
    /\ \E b \in last.before :
          /\ ~b.key.is_idle
          /\ b.start_ts < b.end_ts
          /\ b.start_ts >= CutoffOf(LastSample)
    /\ \A r \in segments : r.is_idle

\* The rows that cover second t.
RowsCovering(t) == {r \in segments : r.start_ts <= t /\ t < r.end_ts}

\* C6: with rotate_every_secs = R > 0 and one constant Active key sampled
\* every second from t0 for N seconds, then flush_and_close(t0 + N): at least
\* floor(N / R) rows are persisted, each of the sampled key and at most R
\* seconds long, each ending where the next starts, and together they cover
\* [t0, t0 + N) with no gap and no overlap.
C6_RotationCoversRun ==
    (flush_calls = 1 /\ rotate_every_secs > 0 /\ IsSome(run)) =>
        LET t0 == Unwrap(run).t0
            tN == Unwrap(last.now_ts)
            R == rotate_every_secs
        IN  /\ Cardinality(segments) >= (tN - t0) \div R
            /\ \A r \in segments :
                  /\ r.end_ts - r.start_ts <= R
                  /\ t0 <= r.start_ts /\ r.end_ts <= tN
                  /\ r.end_ts = tN \/ \E n \in segments : n.start_ts = r.end_ts
                  /\ ~r.is_idle
                  /\ r.pid = Some(Unwrap(run).window.pid)
                  /\ r.pid_create_time = Unwrap(run).window.pid_create_time
            /\ \A t \in t0..(tN - 1) : Cardinality(RowsCovering(t)) = 1

\* C6 witness: a run of more than two rotation intervals, closed, with a
\* shorter last row.
C6_Witness ==
    /\ flush_calls = 1
    /\ rotate_every_secs > 1
    /\ IsSome(run)
    /\ Cardinality(segments) >= 3
    /\ \E r \in segments : /\ r.end_ts = Unwrap(last.now_ts)
                           /\ r.end_ts - r.start_ts < rotate_every_secs

\* C7: with rotate_every_secs = R > 0, between two ingest calls the open
\* segment spans at most R seconds, segments opened by a back-dated Idle
\* sample included.
C7_OpenSegmentSpansAtMostR ==
    rotate_every_secs > 0 =>
        \A c \in current : c.end_ts - c.start_ts <= rotate_every_secs

\* Two windows that differ in pid_create_time only.
SameButCreateTime(w1, w2) ==
    /\ w1.exe_name = w2.exe_name
    /\ w1.process_path = w2.process_path
    /\ w1.window_title = w2.window_title
    /\ w1.pid = w2.pid
    /\ w1.pid_create_time # w2.pid_create_time

\* Two consecutive ingest calls return Ok, both for Active samples.
ActiveAfterActiveStep ==
    /\ LastIngestOk
    /\ LastSample.kind = "Active"
    /\ samples' = samples + 1
    /\ last'.result = "Ok"
    /\ Unwrap(last'.sample).kind = "Active"

\* C8: of two consecutive Active samples that differ in pid_create_time
\* only, the second hands the open segment of the first to insert_segment as
\* it stood (ending at the first sample's ts, with the first lifetime's
\* pid_create_time), adds no other row, and opens a new segment with
\* start_ts = end_ts = its own ts and its own pid_create_time.
C8_PidRecyclingNeverMerged ==
    [][(ActiveAfterActiveStep
        /\ SameButCreateTime(LastSample.window, Unwrap(last'.sample).window))
       =>
        LET first == LastSample
            second == Unwrap(last'.sample)
            open == Unwrap(current)
            row == SegmentInsertOf(open)
        IN  /\ IsSome(current)
            /\ open.end_ts = first.ts
            /\ open.key.pid_create_time = first.window.pid_create_time
            /\ last'.handed = <<row>>
            /\ segments' = InsertSegment(segments, row)
            /\ IsSome(current')
            /\ Unwrap(current').start_ts = second.ts
            /\ Unwrap(current').end_ts = second.ts
            /\ Unwrap(current').key.pid_create_time
                   = second.window.pid_create_time
            /\ Unwrap(current').key.pid = Some(second.window.pid)]_vars

\* C8 witness: the segment just closed, of non-zero duration and persisted,
\* and the open one have the same app, title and pid, and different
\* pid_create_time.
C8_Witness ==
    /\ LastIngestOk
    /\ LastSample.kind = "Active"
    /\ Len(last.handed) = 1
    /\ \E c \in current : \E r \in segments :
          /\ r.start_ts = last.handed[1].start_ts
          /\ r.end_ts = last.handed[1].end_ts
          /\ KeyOfRow(r) = [c.key EXCEPT
                               !.pid_create_time = r.pid_create_time]
          /\ r.pid_create_time # c.key.pid_create_time
          /\ r.end_ts <= c.start_ts

\* The row flush_and_close(now_ts) hands over for the open segment b.
ClosingRow(b, now_ts) ==
    [start_ts |-> b.start_ts, end_ts |-> Max(b.end_ts, now_ts),
     app_id |-> b.key.app_id, title_id |-> b.key.title_id,
     is_idle |-> b.key.is_idle, pid |-> b.key.pid,
     pid_create_time |-> b.key.pid_create_time]

LastClose == last.op = "flush_and_close"

\* C9: flush_and_close(now_ts) with an open segment {start_ts, end_ts, key}
\* hands exactly the row {start_ts, max(end_ts, now_ts), key} to
\* insert_segment and leaves no open segment; if start_ts < max(end_ts,
\* now_ts) and the storage call succeeds, that row is persisted.
C9_CloseFlushesTail ==
    (LastClose /\ IsSome(last.before)) =>
        LET row == ClosingRow(Unwrap(last.before), Unwrap(last.now_ts))
        IN  /\ last.handed = <<row>>
            /\ current = None
            /\ (row.start_ts < row.end_ts /\ last.result = "Ok")
                   => \E r \in segments : r = RowOf(r.id, row)

\* C9 witness: the shutdown call extended the open segment past its end_ts
\* and the row is persisted.
C9_Witness ==
    /\ LastClose
    /\ last.result = "Ok"
    /\ \E b \in last.before :
          /\ Unwrap(last.now_ts) > b.end_ts
          /\ \E r \in segments :
                r = RowOf(r.id, ClosingRow(b, Unwrap(last.now_ts)))

\* C10: a second flush_and_close directly after a first one, with any
\* now_ts and whether or not the first call's write succeeded, hands no row
\* to insert_segment, returns Ok, leaves every table as it was and leaves no
\* open segment.
C10_SecondCloseIsNoOp ==
    [][(flush_calls = 1 /\ flush_calls' = 2) =>
          /\ last'.handed = <<>>
          /\ last'.result = "Ok"
          /\ segments' = segments
          /\ apps' = apps
          /\ titles' = titles
          /\ current = None
          /\ current' = None]_vars

\* C10 witness: the second call has returned, after a first call that
\* persisted the tail row.
C10_Witness ==
    /\ flush_calls = 2
    /\ LastClose
    /\ last.before = None
    /\ \E r \in segments : r.end_ts > now

\* C11: on every execution in which the shutdown flag is set,
\* flush_and_close is called exactly once, by the main thread after it read
\* the flag set; the call comes after the last ingest call has returned, no
\* ingest call begins after it, and main has made the call when it returns;
\* with a fair main thread, a set flag leads to that call.
C11_ShutdownFlushesOnce ==
    /\ [](flush_calls <= 1)
    /\ [](pc = "done" => (shutdown /\ flush_calls = 1))
    /\ [][flush_calls' # flush_calls
             => (shutdown /\ pc = "close" /\ flush_calls = 0)]_vars
    /\ [][flush_calls >= 1 => samples' = samples]_vars
    /\ (shutdown ~> (flush_calls = 1))

\* C11 witness: the flag was set, the loop had made two ingest calls, and
\* the shutdown call has been made.
C11_Witness ==
    /\ shutdown
    /\ pc = "done"
    /\ samples = MaxLoopSamples
    /\ flush_calls = 1
    /\ LastClose

\* The interval [b.start_ts, b.end_ts) of key b.key is held by the open
\* segment or by a persisted row.
IntervalHeld(b) ==
    \/ \E c \in current : /\ c.key = b.key
                          /\ c.start_ts = b.start_ts
                          /\ c.end_ts >= b.end_ts
    \/ \E r \in segments : /\ KeyOfRow(r) = b.key
                           /\ r.start_ts = b.start_ts
                           /\ r.end_ts >= b.end_ts

\* C12: when ingest returns Err, whichever storage call failed, the interval
\* the open segment had accumulated from earlier samples is not lost: it is
\* still held by the open segment, or it is persisted; later calls can
\* persist only what the open segment and the store still hold.
C12_ErrorKeepsAccumulatedInterval ==
    (LastIngest /\ last.result = "Err") =>
        \A b \in last.before : b.start_ts < b.end_ts => IntervalHeld(b)

\* An ingest call of the loop returns Err.
IngestErrStep ==
    /\ pc = "body"
    /\ samples' = samples + 1
    /\ last'.result = "Err"

\* C13: an error returned by ingest never ends the sampling loop: the main
\* thread goes on to the sleep and the loop condition; the loop is left only
\* from the loop condition with the shutdown flag set; and, with a fair main
\* thread, an ingest error is followed by the next ingest call unless the
\* flag is set first (or the run reaches the last iteration followed).
C13_IngestErrorKeepsLoop ==
    /\ [][IngestErrStep => pc' = "sleep"]_vars
    /\ [][(pc # "close" /\ pc' = "close") => (pc = "check" /\ shutdown)]_vars
    /\ [][(pc = "check" /\ pc' # "check" /\ ~shutdown) => pc' = "body"]_vars
    /\ \A n \in 0..MaxLoopSamples :
          (samples = n /\ LastIngest /\ last.result = "Err" /\ pc = "sleep")
              ~> (samples = n + 1 \/ shutdown \/ samples = MaxLoopSamples)

\* C13 witness: the first ingest call returned Err, the flag was not set,
\* and the loop has made the next ingest call.
C13_Witness ==
    /\ ~shutdown
    /\ samples = 2
    /\ faults = 1
    /\ LastIngestOk
    /\ pc = "sleep"

\* A truncate_active_segments_from call has returned Ok.
TruncateReturnedOk ==
    tx = None /\ last.op = "truncate" /\ last.result = "Ok"

\* C14: truncate_active_segments_from(c) that returns Ok maps the table to
\* exactly this: every active row with start_ts >= c is removed; every
\* active row with start_ts < c < end_ts keeps its fields except end_ts,
\* which is c; every other row is as it was; and there is no other row.
C14_TruncateResult ==
    TruncateReturnedOk =>
        LET c == last.arg
            Removed(r) == ~r.is_idle /\ r.start_ts >= c
            Trimmed(r) == ~r.is_idle /\ r.start_ts < c /\ c < r.end_ts
        IN  /\ \A r \in last.pre :
                  /\ Removed(r) => \A n \in segments : n.id # r.id
                  /\ Trimmed(r) => [r EXCEPT !.end_ts = c] \in segments
                  /\ (~Removed(r) /\ ~Trimmed(r)) => r \in segments
            /\ \A n \in segments : \E r \in last.pre : n.id = r.id
            /\ \A n \in segments : \A m \in segments : n.id = m.id => n = m

\* C14 witness: one call removed a row and trimmed another.
C14_Witness ==
    /\ TruncateReturnedOk
    /\ \E r \in last.pre : ~r.is_idle /\ r.start_ts >= last.arg
    /\ \E r \in last.pre : /\ ~r.is_idle
                           /\ r.start_ts < last.arg
                           /\ last.arg < r.end_ts
                           /\ [r EXCEPT !.end_ts = last.arg] \in segments
    /\ Cardinality(segments) = 1

\* The table a truncation call started from, and its cutoff: of the open
\* transaction, or of the call that returned last.
TruncatePre == IF IsSome(tx) THEN Unwrap(tx).pre ELSE last.pre

TruncateCutoff == IF IsSome(tx) THEN Unwrap(tx).cutoff_ts ELSE last.arg

\* C15: truncate_active_segments_from is atomic.  While the call runs and
\* after it has returned, the committed table, and what a reader in another
\* process has read since the call began, is the table before the call or
\* the table with both the delete and the trim applied; it is the table
\* before the call while the transaction is open and after a failure of the
\* delete, the trim or the commit, and has both effects after Ok.
C15_TruncateAtomic ==
    (IsSome(tx) \/ last.op = "truncate") =>
        LET before == TruncatePre
            after == TruncateActiveSegmentsFrom(before, TruncateCutoff)
        IN  /\ segments \in {before, after}
            /\ \A v \in seen : v \in {before, after}
            /\ IsSome(tx) => segments = before
            /\ (tx = None /\ last.result = "Err") => segments = before
            /\ (tx = None /\ last.result = "Ok") => segments = after

\* C15 witness: the commit failed after a delete and a trim that both
\* changed rows, and a reader that read during the call saw the table as it
\* was before the call, as the store is now.
C15_Witness ==
    /\ tx = None
    /\ last.op = "truncate"
    /\ last.result = "Err"
    /\ last.failed = "commit"
    /\ DeleteStatement(last.pre, last.arg) # last.pre
    /\ TruncateActiveSegmentsFrom(last.pre, last.arg)
           # DeleteStatement(last.pre, last.arg)
    /\ seen = Some(last.pre)
    /\ segments = last.pre

\* A step that is an ingest of an Active sample or a flush_and_close.
ActiveIngestOrCloseStep ==
    \/ /\ samples' = samples + 1
       /\ Unwrap(last'.sample).kind = "Active"
    \/ flush_calls' = flush_calls + 1

\* C16: ingest of an Active sample and flush_and_close never delete a
\* segment row and never change a field of one: every row is still there,
\* and they add at most the one row they hand to insert_segment; truncation
\* (a cutoff handed to truncate_active_segments_from) happens in ingest of
\* an Idle sample only.
C16_AppendOnlyOutsideTruncation ==
    [][/\ ActiveIngestOrCloseStep =>
            /\ segments \subseteq segments'
            /\ Cardinality(segments' \ segments) <= Len(last'.handed)
            /\ \A n \in segments' \ segments :
                  n = RowOf(n.id, last'.handed[1])
            /\ last'.cutoff = None
       /\ IsSome(last'.cutoff) =>
            /\ last'.op = "ingest"
            /\ Unwrap(last'.sample).kind = "Idle"]_vars

\* C16 witness: an Active ingest has appended an active row to a table
\* that held an idle row, which is still there.
C16_Witness ==
    /\ LastIngestOk
    /\ LastSample.kind = "Active"
    /\ Len(last.handed) = 1
    /\ Cardinality(segments) = 2
    /\ \E r \in segments : r.is_idle
    /\ \E r \in segments : ~r.is_idle /\ r = RowOf(r.id, last.handed[1])

\* C17: insert_segment called with end_ts <= start_ts returns Ok and leaves
\* the segments table as it was: the same rows, hence the same row count.
C17_ZeroDurationInsertIsNoOp ==
    (last.op = "insert_segment" /\ last.arg.end_ts <= last.arg.start_ts) =>
        /\ last.result = "Ok"
        /\ segments = last.pre
        /\ Cardinality(segments) = Cardinality(last.pre)

\* C17 witness: rows with end_ts = start_ts and with end_ts < start_ts have
\* been handed over, the latest to a table that holds a row.
C17_Witness ==
    /\ last.op = "insert_segment"
    /\ last.arg.end_ts < last.arg.start_ts
    /\ segments # {}
    /\ segments = last.pre

\* C18: in every reachable state, after any sequence of ingest,
\* flush_and_close and truncation operations, every persisted segment row
\* has end_ts > start_ts; a row trimmed by truncation included.
C18_RowsHavePositiveDuration ==
    \A r \in segments : r.end_ts > r.start_ts

\* C18 witness: truncation has shortened a persisted active row of two
\* seconds to one second.
C18_Witness ==
    /\ LastIdleOk
    /\ \E r \in segments : \E b \in last.before :
          /\ ~r.is_idle
          /\ r.end_ts = CutoffOf(LastSample)
          /\ r.end_ts = r.start_ts + 1
          /\ b.start_ts = r.start_ts + 2

\* The rows of the table of op that hold key.
DimensionRows(op, key) ==
    IF op = "upsert_app" THEN AppRows(apps, key[1], key[2])
    ELSE {r \in titles : r.title = key[1]}

\* C19: upsert_app is an idempotent get-or-create.  All calls with one
\* (exe_name, process_path) that return, from the cache or from the store,
\* return the same id; the apps table then holds exactly one row for the
\* pair, with that id; two different pairs never receive the same id; a call
\* in which no storage call fails returns Ok.  The same for upsert_title,
\* keyed on the title.
C19_UpsertIsGetOrCreate ==
    /\ \A h \in run :
          /\ Cardinality(DimensionRows(h.op, h.key)) = 1
          /\ \A r \in DimensionRows(h.op, h.key) : r.id = h.id
          /\ \A g \in run :
                g.op = h.op => (g.key = h.key <=> g.id = h.id)
    /\ (last.op \in {"upsert_app", "upsert_title"} /\ last.fault = "none")
           => last.result = "Ok"

\* C19 witness: after both pairs had been given ids, a call for a pair that
\* had been returned before was served from the store, not from the cache.
C19_Witness ==
    /\ last.op = "upsert_app"
    /\ last.result = "Ok"
    /\ last.again
    /\ ~last.hit
    /\ Cardinality(apps) = 2
    /\ Cardinality({h \in run : h.op = "upsert_app"}) = 2

\* C20: when two processes with separate caches call upsert_app, and their
\* INSERT and SELECT statements interleave in any order, no call fails, all
\* calls for one (exe_name, process_path) return the same id in both
\* processes, and exactly one apps row exists for a pair that was returned.
C20_CrossProcessUpsert ==
    \A h \in run :
        /\ h.result = "Ok"
        /\ \A g \in run : g.key = h.key => g.id = h.id
        /\ Cardinality(AppRows(apps, h.key[1], h.key[2])) = 1

\* C20 witness: both processes have returned for the same pair, and the
\* INSERT of one ran between the INSERT and the SELECT of the other.
C20_Witness ==
    \E h \in run : \E g \in run :
        /\ h.proc # g.proc
        /\ h.key = g.key
        /\ h.result = "Ok" /\ g.result = "Ok"
        /\ g.overlapped
        /\ ~h.overlapped

\* Every entry of the two caches is a persisted row: same key, same id.
CachesMatchStore ==
    /\ \A key \in DOMAIN app_cache :
          \E r \in apps : /\ r.exe_name = key[1]
                          /\ r.process_path = key[2]
                          /\ r.id = app_cache[key]
    /\ \A title \in DOMAIN title_cache :
          \E r \in titles : r.title = title /\ r.id = title_cache[title]

\* An upsert_app or upsert_title call returns Err.
UpsertErrStep ==
    /\ last' # last
    /\ last'.op \in {"upsert_app", "upsert_title"}
    /\ last'.result = "Err"

\* C21: in every reachable state each entry of app_cache and title_cache
\* (natural key -> id) has a persisted apps or titles row with exactly that
\* key and id; an upsert whose INSERT or read-back fails adds no cache entry.
C21_CachesConsistentWithStore ==
    /\ []CachesMatchStore
    /\ [][UpsertErrStep
             => (app_cache' = app_cache /\ title_cache' = title_cache)]_vars

\* C21 witness: a read-back failed after its INSERT had stored the row: the
\* row is in the table and not in the cache, which holds the other pair.
C21_Witness ==
    /\ last.op = "upsert_app"
    /\ last.result = "Err"
    /\ last.fault = "app_readback"
    /\ AppRows(apps, last.arg[1], last.arg[2]) # {}
    /\ last.arg \notin DOMAIN app_cache
    /\ app_cache # << >>
    /\ title_cache # << >>

\* The backends past the guard: parsing arguments, opening the database or
\* in the loop.
PastGuard ==
    {p \in DOMAIN procs : procs[p].pc \in {"config", "open", "loop"}}

\* C24: at most one backend at a time is past the single-instance guard
\* (and so at most one has the database open and calls ingest or
\* flush_and_close); a backend that found the guard held has exited without
\* opening the database and without a call of ingest or flush_and_close,
\* and only a backend holding the guard alone has done any of these.
C24_SingleWriter ==
    /\ Cardinality(PastGuard) <= 1
    /\ \A p \in DOMAIN procs :
          /\ procs[p].already
                => /\ procs[p].pc \in {"guarded", "exited"}
                   /\ ~procs[p].opened
                   /\ procs[p].ingests = 0
                   /\ procs[p].closes = 0
          /\ procs[p].exit = "guard_held" => procs[p].already
          /\ p \in PastGuard
                => /\ procs[p].handle
                   /\ \A q \in DOMAIN procs \ {p} :
                         procs[q].handle => procs[q].already

\* C24 witness: one backend has ingested and is in its loop; the other was
\* started meanwhile, found the guard held and has exited.
C24_Witness ==
    /\ DOMAIN procs = BackendIds
    /\ \E p, q \in BackendIds :
          /\ procs[p].pc = "loop"
          /\ procs[p].ingests > 0
          /\ procs[q].exit = "guard_held"
          /\ ~procs[q].opened

\* C22: --rotate-secs 0 is an accepted configuration: a backend given it
\* does not end with a configuration error.
C22_ZeroRotateAccepted ==
    \A p \in DOMAIN procs :
        procs[p].rotate_arg = Some(0) => procs[p].exit # "config_err"

\* C23: apps and titles rows are created and then stay fixed: no step of a
\* backend (ingest with its truncation, flush_and_close, a restart) updates
\* or deletes a row of apps or titles, a new row never takes the id of an
\* old one, and so an id held for a natural key denotes that key afterwards.
C23_DimensionRowsStayFixed ==
    [][/\ apps \subseteq apps'
       /\ titles \subseteq titles'
       /\ \A n \in apps' \ apps : \A r \in apps : n.id # r.id
       /\ \A n \in titles' \ titles : \A r \in titles : n.id # r.id
       /\ \A key \in DOMAIN app_cache :
             \A r \in apps' :
                r.id = app_cache[key]
                   => r.exe_name = key[1] /\ r.process_path = key[2]
       /\ \A title \in DOMAIN title_cache :
             \A r \in titles' :
                r.id = title_cache[title] => r.title = title]_vars

\* C23 witness: a backend stored an app, a title and a segment row and
\* exited; the next backend's Idle sample truncated the segment row away,
\* and the apps and titles rows are still there.
C23_Witness ==
    /\ apps # {}
    /\ titles # {}
    /\ segments = {}
    /\ LastIdleOk
    /\ \E p, q \in DOMAIN procs :
          /\ p # q
          /\ procs[p].exit = "ok"
          /\ procs[p].ingests > 0
          /\ procs[q].ingests > 0

\* The key ingest builds for a sample, read from the tables given.
StoredKey(app_tbl, title_tbl, sample) ==
    IF sample.kind = "Idle" THEN IdleKey
    ELSE LET w == sample.window
             app_id == Unwrap(AppSelectId(app_tbl, w.exe_name,
                                          w.process_path))
             title_id == {r.id : r \in {t \in title_tbl :
                                           t.title = w.window_title}}
         IN  ActiveKey(app_id, title_id, w)

\* An ingest call returns Ok for a sample whose key is that of the open
\* segment, short of the rotation threshold.
SameKeyStep ==
    /\ samples' = samples + 1
    /\ last'.result = "Ok"
    /\ IsSome(current)
    /\ Unwrap(current).key = StoredKey(apps', titles', Unwrap(last'.sample))
    /\ ~ShouldRotate(Unwrap(current).start_ts, Unwrap(last'.sample).ts,
                     rotate_every_secs)

\* C25: when the open segment's key equals the incoming sample's key and the
\* rotation threshold is not reached, ingest sets end_ts = sample.ts and
\* changes nothing else of the open segment (start_ts and key stay), hands
\* nothing to insert_segment and adds no segments row; for an Active sample
\* the segments table is unchanged.
C25_SameKeyStepOnlyExtends ==
    [][SameKeyStep =>
        LET sample == Unwrap(last'.sample)
            open == Unwrap(current)
        IN  /\ current' = Some([open EXCEPT !.end_ts = sample.ts])
            /\ Unwrap(current').start_ts = open.start_ts
            /\ Unwrap(current').key = open.key
            /\ last'.handed = <<>>
            /\ {r.id : r \in segments'} \subseteq {r.id : r \in segments}
            /\ sample.kind = "Active" => segments' = segments]_vars

\* C25 witness: the open segment was extended by a same-key sample later
\* than its start, short of the threshold, and nothing was handed over.
C25_Witness ==
    /\ LastIngestOk
    /\ last.handed = <<>>
    /\ \E b \in last.before : \E c \in current :
          /\ c.key = b.key
          /\ c.start_ts = b.start_ts
          /\ b.start_ts < LastSample.ts
          /\ b.end_ts < LastSample.ts
          /\ c.end_ts = LastSample.ts
          /\ ~c.key.is_idle
          /\ segments # {}

\* The last ingest call got past the upserts and the truncation with an
\* open segment of another key than its sample's.
KeyChangeCase ==
    /\ LastIngest
    /\ IsSome(last.before)
    /\ last.result = "Ok" \/ last.handed # <<>>
    /\ Unwrap(last.before).key # StoredKey(apps, titles, LastSample)

\* C26: on a key change the previous segment is handed to insert_segment
\* before the new one is opened (if the insert fails no segment is opened),
\* with end_ts = min(end_ts, cutoff) on an active-to-idle transition and its
\* end_ts as it stood on active-to-active and idle-to-active transitions;
\* after an Ok return the open segment has the sample's key, start_ts =
\* sample.ts for an Active sample and the cutoff for an Idle one, and
\* end_ts = sample.ts.
C26_KeyChangeStep ==
    KeyChangeCase =>
        LET sample == LastSample
            b == Unwrap(last.before)
            toIdle == sample.kind = "Idle" /\ ~b.key.is_idle
            end_ts == IF toIdle THEN Min(b.end_ts, CutoffOf(sample))
                      ELSE b.end_ts
            start_ts == IF sample.kind = "Idle" THEN CutoffOf(sample)
                        ELSE sample.ts
        IN  /\ last.handed = <<SegmentInsertOf([b EXCEPT !.end_ts = end_ts])>>
            /\ last.result = "Ok" =>
                  current = Some([start_ts |-> start_ts,
                                  end_ts |-> sample.ts,
                                  key |-> StoredKey(apps, titles, sample)])
            /\ last.result = "Err" => current = None

\* C26 witness: an Idle sample closed an active segment whose end_ts lay
\* past the cutoff: the segment was handed over ending at the cutoff, and
\* the idle segment runs from the cutoff to the sample.
C26_Witness ==
    /\ LastIdleOk
    /\ \E b \in last.before : \E c \in current :
          /\ ~b.key.is_idle
          /\ b.start_ts < CutoffOf(LastSample)
          /\ CutoffOf(LastSample) < b.end_ts
          /\ Len(last.handed) = 1
          /\ last.handed[1].end_ts = CutoffOf(LastSample)
          /\ c.start_ts = CutoffOf(LastSample)
          /\ c.end_ts = LastSample.ts
          /\ c.key.is_idle

\* An ingest call returns Err from a dimension upsert (Active sample) or
\* from the truncation (Idle sample): nothing was handed to insert_segment.
EarlyErrStep ==
    /\ samples' = samples + 1
    /\ last'.result = "Err"
    /\ last'.handed = <<>>

\* C27: when the truncation of an Idle sample or a dimension upsert of an
\* Active sample fails, ingest returns the error with the open segment
\* unchanged and the segments table unchanged: the truncation runs, and
\* fails, before the open segment is read or changed.  An Err of an Idle
\* sample with nothing handed over is a failed truncation.
C27_EarlyFailureChangesNothing ==
    [][EarlyErrStep
          => /\ current' = current
             /\ segments' = segments
             /\ last'.cutoff = IF Unwrap(last'.sample).kind = "Idle"
                               THEN Some(CutoffOf(Unwrap(last'.sample)))
                               ELSE None]_vars

\* C27 witness: the truncation of an Idle sample failed with an active
\* segment open and a row in the table that the truncation would have
\* deleted; both are as they were.
C27_Witness ==
    /\ LastIngest
    /\ last.result = "Err"
    /\ last.handed = <<>>
    /\ LastSample.kind = "Idle"
    /\ current = last.before
    /\ \E c \in current : ~c.key.is_idle /\ c.end_ts > CutoffOf(LastSample)
    /\ \E r \in segments : ~r.is_idle /\ r.start_ts >= CutoffOf(LastSample)

\* The last ingest call was for an Idle sample.
LastIdle == LastIngest /\ LastSample.kind = "Idle"

\* idle_ms divided by 1000, rounded down: the n with
\* 1000 n <= idle_ms < 1000 (n + 1).
WholeSeconds(idle_ms) ==
    CHOOSE n \in 0..idle_ms : 1000 * n <= idle_ms /\ idle_ms < 1000 * (n + 1)

\* sample.ts - idle_secs, held at the least timestamp.
ExpectedIdleStart(sample) ==
    LET d == sample.ts - WholeSeconds(sample.idle_ms)
    IN  IF d < I64Min THEN I64Min ELSE d

\* C28: for an Idle sample the truncation cutoff is sample.ts - idle_secs with
\* idle_secs = idle_ms / 1000 rounded down, held at the minimum of the
\* timestamp type instead of wrapping; an idle segment opened by the sample
\* starts there and ends at sample.ts; and the key of the open segment is
\* the idle key: is_idle true and app_id, title_id, pid and pid_create_time
\* absent.
C28_IdleClassification ==
    LastIdle =>
        LET sample == LastSample
            start_ts == ExpectedIdleStart(sample)
        IN  /\ last.cutoff = Some(start_ts)
            /\ I64Min <= start_ts /\ start_ts <= sample.ts
            /\ IsSome(current)
            /\ Unwrap(current).key
                  = [app_id |-> None, title_id |-> None, is_idle |-> TRUE,
                     pid |-> None, pid_create_time |-> None]
            /\ Unwrap(current).end_ts = sample.ts
            /\ (last.before = None \/ ~Unwrap(last.before).key.is_idle)
                  => Unwrap(current).start_ts = start_ts

\* C28 witness: an Idle sample one second above the least timestamp with
\* idle_ms = 3999: three whole seconds, and the idle segment starts at the
\* least timestamp, where the subtraction is held.
C28_Witness ==
    /\ LastIdle
    /\ last.result = "Ok"
    /\ LastSample.ts = I64Min + 1
    /\ LastSample.idle_ms = 3999
    /\ last.cutoff = Some(I64Min)
    /\ \E c \in current : c.start_ts = I64Min /\ c.end_ts = I64Min + 1
    /\ \E b \in last.before : ~b.key.is_idle

\* C29: idle rows are immutable once persisted: every step of ingest (with
\* its truncation) and of flush_and_close keeps every row with is_idle = 1
\* as it is, start_ts and end_ts included.
C29_IdleRowsImmutable ==
    [][\A r \in segments : r.is_idle => r \in segments']_vars

\* C29 witness: an Idle sample's truncation ran with a cutoff at or before
\* the start of a persisted idle row, and the row is there unchanged, next
\* to the idle segment now open over the same seconds.
C29_Witness ==
    /\ LastIdleOk
    /\ \E r \in segments : \E c \in current :
          /\ r.is_idle
          /\ CutoffOf(LastSample) <= r.start_ts
          /\ r.start_ts < r.end_ts
          /\ c.key.is_idle
          /\ c.start_ts <= r.start_ts

\* An ingest call for an Active sample.
ActiveStep ==
    /\ samples' = samples + 1
    /\ Unwrap(last'.sample).kind = "Active"

\* Two windows that differ in window_title only.
SameButTitle(w1, w2) ==
    /\ w1.exe_name = w2.exe_name
    /\ w1.process_path = w2.process_path
    /\ w1.pid = w2.pid
    /\ w1.pid_create_time = w2.pid_create_time
    /\ w1.window_title # w2.window_title

\* C30: for an Active sample with an empty window_title the titles table and
\* the title cache are left as they are and the key has title_id absent;
\* with a non-empty window_title the key's title_id is the id of the titles
\* row of that title, the one upsert_title returns; and of two consecutive
\* Active samples that differ in window_title only, the second has another
\* key than the first.
C30_TitleInKey ==
    [][ActiveStep =>
        LET w == Unwrap(last'.sample).window
            ok == last'.result = "Ok"
        IN  /\ w.window_title = ""
                 => /\ titles' = titles
                    /\ title_cache' = title_cache
                    /\ ok => Unwrap(current').key.title_id = None
            /\ (w.window_title # "" /\ ok)
                 => /\ \E r \in titles' :
                          /\ r.title = w.window_title
                          /\ Unwrap(current').key.title_id = Some(r.id)
                    /\ title_cache'[w.window_title]
                          \in Unwrap(current').key.title_id
            /\ (ok /\ LastIngestOk /\ LastSample.kind = "Active"
                   /\ SameButTitle(LastSample.window, w))
                 => /\ IsSome(current)
                    /\ Unwrap(current').key # Unwrap(current).key]_vars

\* C30 witness: a titled sample then an untitled one of the same window: the
\* segment handed over carries the title's id, the open one has no title_id,
\* and the titles table holds the one title.
C30_Witness ==
    /\ LastIngestOk
    /\ LastSample.kind = "Active"
    /\ LastSample.window.window_title = ""
    /\ Cardinality(titles) = 1
    /\ Len(last.handed) = 1
    /\ \E r \in titles : last.handed[1].title_id = Some(r.id)
    /\ \E c \in current :
          /\ c.key.title_id = None
          /\ c.key.app_id = last.handed[1].app_id
          /\ c.key.pid = last.handed[1].pid

C32_OpenSegmentAfterOk ==
    LastIngestOk =>
        /\ IsSome(current)
        /\ Cardinality(current) = 1
        /\ Unwrap(current).key = StoredKey(apps, titles, LastSample)
        /\ Unwrap(current).end_ts = LastSample.ts
        /\ Unwrap(current).start_ts <= Unwrap(current).end_ts

\* C32 witness: the third sample of a run, Idle after two Active samples of
\* different keys, returned Ok; the idle segment is open from before the
\* sample to the sample.
C32_Witness ==
    /\ LastIdleOk
    /\ samples = 3
    /\ faults = 0
    /\ \E b \in last.before : ~b.key.is_idle
    /\ \E c \in current :
          c.key = IdleKey /\ c.start_ts < c.end_ts /\ c.end_ts = LastSample.ts
    /\ Cardinality(apps) = 2

\* An Idle sample was ingested Ok with an active segment open whose
\* start_ts < cutoff <= end_ts.
ActiveToIdleInside ==
    /\ LastIdleOk
    /\ IsSome(last.before)
    /\ ~Unwrap(last.before).key.is_idle
    /\ Unwrap(last.before).start_ts < CutoffOf(LastSample)
    /\ CutoffOf(LastSample) <= Unwrap(last.before).end_ts

\* C33: on an active-to-idle transition with start_ts < cutoff <= end_ts of
\* the open active segment, the row written for that segment runs from its
\* start_ts to exactly the cutoff, and the idle segment opened starts
\* exactly at the cutoff: the two share no second and leave none between
\* them.
C33_BoundaryContiguity ==
    ActiveToIdleInside =>
        LET b == Unwrap(last.before)
            cutoff == CutoffOf(LastSample)
        IN  /\ Len(last.handed) = 1
            /\ last.handed[1].start_ts = b.start_ts
            /\ last.handed[1].end_ts = cutoff
            /\ \E r \in segments :
                  /\ KeyOfRow(r) = b.key
                  /\ r.start_ts = b.start_ts
                  /\ r.end_ts = cutoff
            /\ Unwrap(current).key.is_idle
            /\ Unwrap(current).start_ts = cutoff

\* C33 witness: the active segment ran past the cutoff; its row is in the
\* table ending at the cutoff, where the open idle segment starts.
C33_Witness ==
    /\ ActiveToIdleInside
    /\ CutoffOf(LastSample) < Unwrap(last.before).end_ts
    /\ \E r \in segments : \E c \in current :
          /\ ~r.is_idle
          /\ r.start_ts = Unwrap(last.before).start_ts
          /\ r.start_ts < r.end_ts
          /\ r.end_ts = c.start_ts
          /\ c.start_ts < c.end_ts

\* C34: in a run whose key changes at every sample, every active segment is
\* observed in one sample only: when the next sample closes it, it is handed
\* to insert_segment with start_ts = ts of its sample and end_ts <= start_ts,
\* and insert_segment drops it; no row with is_idle = 0 is ever persisted.
C34_SingleSampleRunLeavesNoRow ==
    /\ \A r \in segments : r.is_idle
    /\ (LastIngestOk /\ IsSome(last.before)
          /\ ~Unwrap(last.before).key.is_idle)
         => /\ Unwrap(last.before).start_ts = Unwrap(last.before).end_ts
            /\ Len(last.handed) = 1
            /\ last.handed[1].start_ts = Unwrap(last.before).start_ts
            /\ last.handed[1].end_ts <= last.handed[1].start_ts
            /\ ~last.handed[1].is_idle

\* C34 witness: three Active samples, each of another key than the one
\* before and a second later; two segments were closed and no row exists.
C34_Witness ==
    /\ samples = 3
    /\ LastIngestOk
    /\ LastSample.kind = "Active"
    /\ segments = {}
    /\ Cardinality(apps) = 2
    /\ Len(last.handed) = 1
    /\ ~last.handed[1].is_idle
    /\ last.handed[1].end_ts = last.handed[1].start_ts
    /\ last.handed[1].end_ts < LastSample.ts
    /\ last.handed[1].start_ts > 2

\* The least of the cutoffs of the calls made.
RECURSIVE LeastCutoff(_)
LeastCutoff(calls) ==
    IF Len(calls) = 1 THEN calls[1].cutoff_ts
    ELSE Min(calls[1].cutoff_ts, LeastCutoff(Tail(calls)))

\* C35: truncation is idempotent and composes by minimum: a call with the
\* cutoff of the call before it leaves the table as that call left it, and
\* after calls with cutoffs c1, c2, .. the table is the one a single call
\* with the least of them gives on the table before the first call.
C35_TruncationComposesByMin ==
    /\ \A n \in 2..Len(run) :
          run[n].cutoff_ts = run[n - 1].cutoff_ts
              => run[n].after = run[n - 1].after
    /\ Len(run) >= 1
          => segments
               = TruncateActiveSegmentsFrom(Unwrap(seen), LeastCutoff(run))

\* C35 witness: a first call trimmed an active row, a second call with a
\* lower cutoff deleted it, and an idle row over the same seconds is still
\* as it was.
C35_Witness ==
    /\ Len(run) = 2
    /\ run[2].cutoff_ts < run[1].cutoff_ts
    /\ Cardinality(Unwrap(seen)) = 2
    /\ \E r \in Unwrap(seen) : \E t \in run[1].after :
          /\ ~r.is_idle
          /\ t.id = r.id
          /\ t.end_ts = run[1].cutoff_ts
          /\ t.end_ts < r.end_ts
          /\ \A q \in segments : q.id # r.id
    /\ \E r \in segments : r.is_idle /\ r.end_ts > run[1].cutoff_ts

\* The rowids a step adds to the segments table.
NewRowIds == {r.id : r \in segments'} \ {r.id : r \in segments}

\* C36: every ingest call and every flush_and_close call adds at most one
\* segments row, and none unless it handed a segment to insert_segment; the
\* number of rows never exceeds the number of ingest calls that changed key
\* or rotated, plus one once flush_and_close has been called.
C36_AtMostOneInsertPerCall ==
    /\ [][/\ Cardinality(NewRowIds) <= 1
          /\ NewRowIds # {} => Len(last'.handed) = 1]_vars
    /\ [](Cardinality(segments) <= run + flush_calls)

\* C36 witness: two ingest calls closed a segment each and flush_and_close
\* the third; three rows, the most there can be.
C36_Witness ==
    /\ run = 2
    /\ flush_calls = 1
    /\ samples = 3
    /\ Cardinality(segments) = 3
    /\ last.op = "flush_and_close"
    /\ Len(last.handed) = 1

\* C37: in every reachable state every segments row with is_idle = 1 has
\* app_id, title_id, pid and pid_create_time absent, every row with
\* is_idle = 0 has app_id and pid present, and every app_id or title_id that
\* is present is the id of a row of apps or of titles.
C37_RowShapeAndReferences ==
    \A r \in segments :
        /\ r.is_idle
              => /\ r.app_id = None
                 /\ r.title_id = None
                 /\ r.pid = None
                 /\ r.pid_create_time = None
        /\ ~r.is_idle => (IsSome(r.app_id) /\ IsSome(r.pid))
        /\ \A id \in r.app_id : \E a \in apps : a.id = id
        /\ \A id \in r.title_id : \E t \in titles : t.id = id

\* C37 witness: the table holds an idle row and an active row with an app,
\* a title, a pid and a pid_create_time.
C37_Witness ==
    /\ \E r \in segments : r.is_idle
    /\ \E r \in segments :
          /\ ~r.is_idle
          /\ IsSome(r.title_id)
          /\ IsSome(r.pid_create_time)
          /\ \E a \in apps : r.app_id = Some(a.id)
          /\ \E t \in titles : r.title_id = Some(t.id)

====
